---- MODULE Spec2Model ----
(***************************************************************************)
(* A model of the Reddit extraction engine of src/tools/reddit.py:         *)
(* the structural (markup) comment parser, the JSON comment parser, the    *)
(* rate-limited fetcher, the markup/JSON reconciliation of                 *)
(* extract_reddit_post, the pandas deduplication pipeline, the time-window *)
(* filter and the listing run of extract_subreddit_comments.               *)
(*                                                                         *)
(* Python strings that the code transforms are sequences of characters     *)
(* (each a TLA+ string naming one code point); identifiers are pairs       *)
(* <<prefix, number>>, so that a source-assigned identifier t1_<n> and a   *)
(* synthesized comment_<n> are values of one shape.                        *)
(***************************************************************************)
EXTENDS Integers, Sequences, FiniteSets, TLC

VARIABLES
    doc,            \* markup parser: the DOM of the fetched page (response.text)
    html_pc,        \* markup parser: "input" | "parsed" | "raised"
    html_comments,  \* markup parser: the list parse_post_comments returned
    payload,        \* JSON parser: the decoded API response (json_data)
    json_pc,        \* JSON parser: "input" | "parsed"
    json_comments,  \* JSON parser: the list parse_reddit_json_comments returned
    requests_count, \* fetcher: self.requests_count
    session_long,   \* fetcher: whether time.time() - session_start_time > 300
    fetch_pc,       \* fetcher: "idle" | "loop" | "returned" | "raised"
    current_delay,  \* fetcher: current_delay of the running call, in milliseconds
    attempt,        \* fetcher: the loop variable of the running call
    sleeps,         \* fetcher: the delays the running call has slept, in order
    last_status,    \* fetcher: the outcome of the last attempt of the running call
    calls_started,  \* fetcher: the number of safe_request calls begun so far
    dd_in,          \* deduplication: the list of comment dicts passed in
    dd_pc,          \* deduplication: "input" | "once" | "twice"
    dd_once,        \* deduplication: the frame process_comments_with_pandas returned
    dd_twice,       \* deduplication: the frame returned for the records of dd_once
    post_pc,        \* extract_reddit_post: "start" | "bulk" | "parse" | "json" |
                    \*   "returned" (line 747) | "failed" (an except clause returned) |
                    \*   "raised" (an exception left the function)
    post_markup,    \* extract_reddit_post: what parse_post_comments returned
    post_json,      \* extract_reddit_post: json_comments
    post_json_state,\* extract_reddit_post: "unasked" | "parsed" | "failed"
    post_comments,  \* extract_reddit_post: post_data["comments"] / the returned comments
    fp_posts,       \* filter_posts_by_time_range: the argument posts
    fp_days,        \* filter_posts_by_time_range: the argument time_range_days
    fp_now,         \* filter_posts_by_time_range: what datetime.now() returns, in hours
    fp_pc,          \* filter_posts_by_time_range: "input" | "returned"
    fp_out,         \* filter_posts_by_time_range: the returned list
    ls_pc,          \* extract_subreddit_comments: "start" | "fetching" (inside
                    \*   get_subreddit_posts) | "filtering" | "loop" | "extract"
                    \*   (inside extract_reddit_post) | "summarizing" | "returned"
    ls_args,        \* extract_subreddit_comments: time_range_days, max_posts,
                    \*   max_comments_per_post, whether a progress_callback is given
    ls_site,        \* extract_subreddit_comments: what the listing request meets
    posts,          \* extract_subreddit_comments: posts
    ls_i,           \* extract_subreddit_comments: the loop variable i
    processed_posts,\* extract_subreddit_comments: processed_posts
    all_comments,   \* extract_subreddit_comments: all_comments
    progress_calls, \* extract_subreddit_comments: the fractions passed to the
                    \*   progress callback so far, in order
    ls_result,      \* extract_subreddit_comments: the returned dictionary
    ls_outcomes,    \* extract_subreddit_comments: for each item processed so far, how
                    \*   its extraction ended and the comments it returned
    ls_request,     \* get_subreddit_posts: the limit it was called with and the
                    \*   limit parameter of the listing URL (NoneInt when not sent)
    total_comments, \* extract_subreddit_comments: total_comments
    summary         \* extract_subreddit_comments: summary

htmlVars == <<doc, html_pc, html_comments>>
jsonVars == <<payload, json_pc, json_comments>>
fetchVars == <<requests_count, session_long, fetch_pc, current_delay, attempt, sleeps,
               last_status, calls_started>>
dedupeVars == <<dd_in, dd_pc, dd_once, dd_twice>>
postVars == <<post_pc, post_markup, post_json, post_json_state, post_comments>>
filterVars == <<fp_posts, fp_days, fp_now, fp_pc, fp_out>>
listingVars == <<ls_pc, ls_args, ls_site, posts, ls_i, processed_posts, all_comments,
                 progress_calls, ls_result, ls_outcomes, ls_request, total_comments,
                 summary>>
vars == <<htmlVars, jsonVars, fetchVars, dedupeVars, postVars, filterVars, listingVars>>

\* the parts of the state a specification of another component leaves untouched
HtmlIdle == doc = <<>> /\ html_pc = "idle" /\ html_comments = <<>>
JsonIdle == payload = <<>> /\ json_pc = "idle" /\ json_comments = <<>>
FetchIdle ==
    /\ requests_count = 0 /\ session_long = FALSE /\ fetch_pc = "idle"
    /\ current_delay = 0 /\ attempt = 0 /\ sleeps = <<>> /\ last_status = "none"
    /\ calls_started = 0
DedupeIdle == dd_in = <<>> /\ dd_pc = "idle" /\ dd_once = <<>> /\ dd_twice = <<>>
PostIdle ==
    /\ post_pc = "idle" /\ post_markup = <<>> /\ post_json = <<>>
    /\ post_json_state = "unasked" /\ post_comments = <<>>
FilterIdle ==
    /\ fp_posts = <<>> /\ fp_days = 0 /\ fp_now = 0 /\ fp_pc = "idle" /\ fp_out = <<>>
ListingIdle ==
    /\ ls_pc = "idle" /\ ls_args = <<>> /\ ls_site = <<>> /\ posts = <<>> /\ ls_i = 0
    /\ processed_posts = <<>> /\ all_comments = <<>> /\ progress_calls = <<>>
    /\ ls_result = <<>> /\ ls_outcomes = <<>>
    /\ ls_request = <<>> /\ total_comments = 0 /\ summary = <<>>

-----------------------------------------------------------------------------
(* Python values *)

\* None where an identifier (string) is expected
None == <<"None", 0>>

\* None where a text (sequence of characters) is expected
NoText == <<"None">>

\* the value of a `return` without an expression where an int is expected
NoneInt == -1

\* truthiness of a Python str-or-None
Truthy(text) == text # NoText /\ text # <<>>

-----------------------------------------------------------------------------
(* normalize_text *)

\* characters of category \w that the model's texts are written with
WordChars == {"a", "b", "c", "d", "e", "l", "m", "o", "r", "t", "v", "y", "p"}

\* unicodedata.combining(c) # 0
Combining == {"combining_acute"}

\* unicodedata.normalize('NFKD', c) of one character
NFKD(c) == IF c = "e_acute" THEN <<"e", "combining_acute">> ELSE <<c>>

IsSpace(c) == c = " "

RECURSIVE Decompose(_)
Decompose(s) == IF s = <<>> THEN <<>> ELSE NFKD(Head(s)) \o Decompose(Tail(s))

StripCombining(s) == SelectSeq(s, LAMBDA c : c \notin Combining)

\* re.sub(r'[^\w\s]', ' ', s)
PunctToSpace(s) ==
    [i \in 1..Len(s) |-> IF s[i] \in WordChars \/ IsSpace(s[i]) THEN s[i] ELSE " "]

\* re.sub(r'\s+', ' ', s)
RECURSIVE CollapseSpaces(_)
CollapseSpaces(s) ==
    IF Len(s) < 2 THEN s
    ELSE IF IsSpace(s[1]) /\ IsSpace(s[2]) THEN CollapseSpaces(Tail(s))
    ELSE <<Head(s)>> \o CollapseSpaces(Tail(s))

\* str.strip()
RECURSIVE LStrip(_)
LStrip(s) == IF s # <<>> /\ IsSpace(Head(s)) THEN LStrip(Tail(s)) ELSE s

RECURSIVE RStrip(_)
RStrip(s) ==
    IF s # <<>> /\ IsSpace(s[Len(s)]) THEN RStrip(SubSeq(s, 1, Len(s) - 1)) ELSE s

Strip(s) == RStrip(LStrip(s))

normalize_text(text) ==
    IF ~Truthy(text) THEN <<>>
    ELSE Strip(CollapseSpaces(PunctToSpace(StripCombining(Decompose(text)))))

-----------------------------------------------------------------------------
(* The DOM and the XPath queries of parse_post_comments.                   *)
(* doc[i] is the i-th div of the page in document order:                   *)
(*   parent   index of the enclosing div, 0 for a div directly under body  *)
(*   class    the class attribute, as its sequence of tokens               *)
(*   dtype    the data-type attribute ("" when absent)                     *)
(*   fullname the data-fullname attribute (None when absent)               *)
(*   id       the id attribute (None when absent)                          *)
(*   ptext    the text of the div's <p> children (NoText when it has none) *)

Nodes(d) == 1..Len(d)

RECURSIVE IsAncestor(_, _, _)
IsAncestor(d, a, n) ==
    LET p == d[n].parent IN IF p = 0 THEN FALSE ELSE p = a \/ IsAncestor(d, a, p)

\* .//div relative to n: the proper descendants of n
Descendants(d, n) == {m \in Nodes(d) : IsAncestor(d, n, m)}

\* a node-set in document order
RECURSIVE DocOrder(_)
DocOrder(S) ==
    IF S = {} THEN <<>>
    ELSE LET m == CHOOSE x \in S : \A y \in S : x <= y
         IN <<m>> \o DocOrder(S \ {m})

\* substring facts between the class tokens of the pages and the query words
TokenContains(token, word) ==
    \/ token = word
    \/ <<token, word>> \in {<<"nestedlisting", "nested">>, <<"nestedlisting", "listing">>}

\* contains(@class, word)
ClassContains(node, word) ==
    \E i \in 1..Len(node.class) : TokenContains(node.class[i], word)

IsCommentDiv(node) == node.dtype = "comment"

\* the text nodes below the divs of S (each div's own <p> text), document order
TextsOf(d, S) ==
    LET withText == {m \in S : d[m].ptext # NoText /\ d[m].ptext # <<>>}
        order == DocOrder(withText)
    IN [i \in 1..Len(order) |-> d[order[i]].ptext]

\* the divs of S and everything below them
Closure(d, S) == S \cup {m \in Nodes(d) : \E a \in S : IsAncestor(d, a, m)}

\* ' '.join([text.strip() for text in texts if text.strip()])
RECURSIVE JoinStripped(_)
JoinStripped(texts) ==
    IF texts = <<>> THEN <<>>
    ELSE LET h == Strip(Head(texts))
             rest == JoinStripped(Tail(texts))
         IN IF h = <<>> THEN rest
            ELSE IF rest = <<>> THEN h
            ELSE h \o <<" ">> \o rest

\* body_selectors, each evaluated relative to the comment container n whose
\* descendants are D
BodyTexts(d, n, D) ==
    << TextsOf(d, {m \in D : d[m].class = <<"md">>}),
       TextsOf(d, {m \in D : d[m].parent \in D
                              /\ ClassContains(d[d[m].parent], "usertext-body")}),
       TextsOf(d, Closure(d, {m \in D : ClassContains(d[m], "usertext-body")})),
       TextsOf(d, Closure(d, {m \in D : d[m].class = <<"md">>})),
       TextsOf(d, D \cup {n}),
       TextsOf(d, Closure(d, {m \in D : ClassContains(d[m], "Comment")})),
       TextsOf(d, Closure(d, {m \in D : ClassContains(d[m], "RichTextJSON-root")})) >>

body_selectors(d, n) == BodyTexts(d, n, Descendants(d, n))

\* the loop over body_selectors: the first selector whose joined text is non-empty
RECURSIVE FirstBody(_)
FirstBody(sels) ==
    IF sels = <<>> THEN NoText
    ELSE IF Head(sels) # <<>> /\ JoinStripped(Head(sels)) # <<>>
         THEN JoinStripped(Head(sels))
         ELSE FirstBody(Tail(sels))

\* the first three of the stripped texts that are longer than 10 characters
\* (no text of the model's alphabet contains one of the skip_terms)
FilteredText(all) ==
    SelectSeq([i \in 1..Len(all) |-> Strip(all[i])], LAMBDA t : Len(t) > 10)

First3(s) == SubSeq(s, 1, IF Len(s) < 3 THEN Len(s) ELSE 3)

\* the fallback over .//text()
FallbackBody(d, n) ==
    IF FilteredText(TextsOf(d, Descendants(d, n) \cup {n})) = <<>> THEN NoText
    ELSE JoinStripped(First3(FilteredText(TextsOf(d, Descendants(d, n) \cup {n}))))

\* `if not comment_body:` after the selector loop
OrFallback(body, d, n) == IF Truthy(body) THEN body ELSE FallbackBody(d, n)

comment_body(d, n) == OrFallback(FirstBody(body_selectors(d, n)), d, n)

\* self.normalize_text(comment_body) if comment_body else None
NormalizedBody(body) == IF Truthy(body) THEN normalize_text(body) ELSE NoText

\* f"comment_{n}"
Synth(n) == <<"comment_", n>>

\* the identifier parse_comment returns after it has appended the record
ReturnedId(comment_id, list) ==
    IF comment_id # None THEN comment_id ELSE Synth(Len(list))

\* the list with comment_data appended, and the identifier returned
Appended(list, comment_id) == [list |-> list, ret |-> ReturnedId(comment_id, list)]

\* the end of parse_comment: append comment_data when the normalized body is
\* not empty.  `node` records which div the record was read from.
AddComment(list, comment_id, normalized_body, parent_id, depth, n) ==
    IF Truthy(normalized_body) /\ Len(Strip(normalized_body)) > 0
    THEN Appended(Append(list, [ comment_id  |-> IF comment_id # None THEN comment_id
                                                  ELSE Synth(Len(list)),
                                 parent_id   |-> parent_id,
                                 body        |-> normalized_body,
                                 depth       |-> depth,
                                 reply_count |-> 0,
                                 node        |-> n ]),
                  comment_id)
    ELSE [list |-> list, ret |-> None]

\* parse_comment(parent_selector, parent_id, depth) on the list so far:
\* the list afterwards and the returned identifier (None when nothing was added)
parse_comment(d, list, n, parent_id, depth) ==
    AddComment(list, d[n].fullname, NormalizedBody(comment_body(d, n)),
               parent_id, depth, n)

\* reply_selectors, each evaluated relative to the container `what` whose
\* descendants are D
ReplyBoxes(d, D) ==
    << DocOrder({m \in D : IsCommentDiv(d[m])
                    /\ ~\E a \in Nodes(d) : IsAncestor(d, a, m) /\ IsCommentDiv(d[a])}),
       DocOrder({m \in D : IsCommentDiv(d[m]) /\ d[m].parent \in D
                    /\ ClassContains(d[d[m].parent], "child")}),
       DocOrder({m \in D : IsCommentDiv(d[m])
                    /\ \E a \in D : ClassContains(d[a], "child") /\ IsAncestor(d, a, m)}),
       DocOrder({m \in D : ClassContains(d[m], "thing") /\ IsCommentDiv(d[m])}),
       DocOrder({m \in D : ClassContains(d[m], "comment")
                    /\ ~ClassContains(d[m], "parent")}),
       DocOrder({m \in D : ClassContains(d[m], "Comment")
                    /\ ClassContains(d[m], "nested")}) >>

reply_selectors(d, what) == ReplyBoxes(d, Descendants(d, what))

\* x/following-sibling::div
FollowingSiblings(d, x) == {m \in Nodes(d) : d[m].parent = d[x].parent /\ m > x}

First10(s) == SubSeq(s, 1, IF Len(s) < 10 THEN Len(s) ELSE 10)

\* chain_selectors relative to `what` whose descendants are D, each cut to its
\* first 10 items
ChainItems(d, what, D) ==
    << First10(DocOrder({m \in Nodes(d) : IsCommentDiv(d[m])
                            /\ \E x \in D \cup {what} : m \in FollowingSiblings(d, x)})),
       First10(DocOrder({m \in Nodes(d) : IsCommentDiv(d[m])
                            /\ \E x \in D : /\ ClassContains(d[x], "morechildren")
                                            /\ m \in FollowingSiblings(d, x)})),
       First10(DocOrder({m \in D : \E a \in D : /\ ClassContains(d[a], "child")
                                                /\ IsAncestor(d, a, m)})) >>

chain_selectors(d, what) == ChainItems(d, what, Descendants(d, what))

RECURSIVE Flatten(_)
Flatten(seqs) == IF seqs = <<>> THEN <<>> ELSE Head(seqs) \o Flatten(Tail(seqs))

\* the depth beyond which process_replies returns without a value
DepthCap == 15

\* the depth below which the sibling-chain queries are tried
ChainDepth == 5

\* reply_box.xpath("./@data-fullname").get() or reply_box.xpath("./@id").get()
ReplyId(node) == IF node.fullname # None THEN node.fullname ELSE node.id

\* the value of `replies_found += nested_replies`; adding None raises TypeError
AddReplies(found, nested) ==
    IF nested = NoneInt THEN [raised |-> TRUE, found |-> found]
    ELSE [raised |-> FALSE, found |-> found + nested]

\* a loop that does not remember the identifiers it has parsed
Processed_Forget(st, reply_id) == st

\* processed_ids.add(reply_id) when the box has an identifier
Processed(st, reply_id) ==
    IF reply_id # None THEN [st EXCEPT !.processed_ids = @ \cup {reply_id}] ELSE st

\* the loop state after a reply and its nested replies were counted
Counted(st, nested, sum) ==
    [ list |-> nested.list, processed_ids |-> st.processed_ids,
      found |-> sum.found, raised |-> nested.raised \/ sum.raised ]

\* the loop state after a chain item was parsed
ChainCounted(st, chain_id, pc) ==
    [ list |-> pc.list, processed_ids |-> st.processed_ids \cup {chain_id},
      found |-> IF pc.ret # None THEN st.found + 1 ELSE st.found,
      raised |-> FALSE ]

RECURSIVE process_replies(_, _, _, _, _), ReplyLoop(_, _, _, _, _),
          ReplyBox(_, _, _, _, _, _), ReplyParsed(_, _, _, _, _, _),
          ReplyNested(_, _, _, _, _, _), ChainLoop(_, _, _, _, _),
          ChainItem(_, _, _, _, _, _), AfterReplies(_, _, _, _, _)

\* the loops over reply_selectors and their boxes, on the state
\* st = [list, processed_ids, found, raised]; the loop ends when a statement raised
ReplyLoop(d, boxes, st, parent_comment_id, depth) ==
    IF boxes = <<>> \/ st.raised THEN st
    ELSE ReplyBox(d, boxes, st, parent_comment_id, depth, ReplyId(d[Head(boxes)]))

\* one box: skipped when its identifier was processed by this call, else parsed
ReplyBox(d, boxes, st, parent_comment_id, depth, reply_id) ==
    IF reply_id # None /\ reply_id \in st.processed_ids
    THEN ReplyLoop(d, Tail(boxes), st, parent_comment_id, depth)
    ELSE ReplyParsed(d, boxes, Processed(st, reply_id), parent_comment_id, depth,
                     parse_comment(d, st.list, Head(boxes), parent_comment_id, depth + 1))

\* `if reply_comment_id:` the nested replies of the box are walked
ReplyParsed(d, boxes, st, parent_comment_id, depth, pc) ==
    IF pc.ret = None
    THEN ReplyLoop(d, Tail(boxes), st, parent_comment_id, depth)
    ELSE ReplyNested(d, boxes, st, parent_comment_id, depth,
                     process_replies(d, pc.list, Head(boxes), pc.ret, depth + 1))

\* replies_found += 1; replies_found += nested_replies
ReplyNested(d, boxes, st, parent_comment_id, depth, nested) ==
    ReplyLoop(d, Tail(boxes), Counted(st, nested, AddReplies(st.found + 1, nested.ret)),
              parent_comment_id, depth)

\* the loops over chain_selectors and their items
ChainLoop(d, items, st, parent_comment_id, depth) ==
    IF items = <<>> THEN st
    ELSE ChainItem(d, items, st, parent_comment_id, depth, d[Head(items)].fullname)

ChainItem(d, items, st, parent_comment_id, depth, chain_id) ==
    IF chain_id # None /\ chain_id \notin st.processed_ids
    THEN ChainLoop(d, Tail(items),
                   ChainCounted(st, chain_id,
                                parse_comment(d, st.list, Head(items),
                                              parent_comment_id, depth + 1)),
                   parent_comment_id, depth)
    ELSE ChainLoop(d, Tail(items), st, parent_comment_id, depth)

\* `if replies_found == 0 and depth < 5:` the sibling-chain queries
AfterReplies(d, what, st, parent_comment_id, depth) ==
    IF ~st.raised /\ st.found = 0 /\ depth < ChainDepth
    THEN ChainLoop(d, Flatten(chain_selectors(d, what)), st, parent_comment_id, depth)
    ELSE st

\* what process_replies hands back: the list, the count, whether it raised
Returned(st) == [list |-> st.list, ret |-> st.found, raised |-> st.raised]

\* process_replies(what, parent_comment_id, depth) on the list so far: the list
\* afterwards, the returned count (NoneInt beyond the cap), and whether it raised
process_replies(d, list, what, parent_comment_id, depth) ==
    IF depth > DepthCap THEN [list |-> list, ret |-> NoneInt, raised |-> FALSE]
    ELSE Returned(AfterReplies(d, what,
                     ReplyLoop(d, Flatten(reply_selectors(d, what)),
                               [ list |-> list, processed_ids |-> {}, found |-> 0,
                                 raised |-> FALSE ],
                               parent_comment_id, depth),
                     parent_comment_id, depth))

\* main_selectors, evaluated on the whole page
main_selectors(d) ==
    << DocOrder({m \in Nodes(d) : IsCommentDiv(d[m]) /\ d[m].parent # 0
                    /\ d[d[m].parent].class = <<"sitetable", "nestedlisting">>}),
       DocOrder({m \in Nodes(d) : IsCommentDiv(d[m])
                    /\ \E a \in Nodes(d) : IsAncestor(d, a, m)
                                            /\ ClassContains(d[a], "sitetable")}),
       DocOrder({m \in Nodes(d) : IsCommentDiv(d[m])}),
       DocOrder({m \in Nodes(d) : ClassContains(d[m], "comment")}),
       DocOrder({m \in Nodes(d) : ClassContains(d[m], "Comment")}),
       DocOrder({m \in Nodes(d) : ClassContains(d[m], "thing") /\ IsCommentDiv(d[m])}) >>

\* the first main selector that matches anything (<<>> when none does)
RECURSIVE FirstMatch(_)
FirstMatch(sels) ==
    IF sels = <<>> THEN <<>>
    ELSE IF Head(sels) # <<>> THEN Head(sels) ELSE FirstMatch(Tail(sels))

\* total_replies += reply_count
TopCounted(r) == [list |-> r.list, raised |-> r.raised \/ AddReplies(0, r.ret).raised]

RECURSIVE TopLoop(_, _, _), TopParsed(_, _, _, _)

\* the loop over the top-level items: parse each, then walk its replies
TopLoop(d, items, st) ==
    IF items = <<>> \/ st.raised THEN st
    ELSE TopParsed(d, items, st, parse_comment(d, st.list, Head(items), None, 0))

TopParsed(d, items, st, pc) ==
    IF pc.ret = None THEN TopLoop(d, Tail(items), st)
    ELSE TopLoop(d, Tail(items),
                 TopCounted(process_replies(d, pc.list, Head(items), pc.ret, 0)))

\* 'reply' in text.lower(), for texts of the model's (lower-case) alphabet
HasReply(text) ==
    \E i \in 1..Len(text) - 4 : SubSeq(text, i, i + 4) = <<"r", "e", "p", "l", "y">>

\* len(combined_text) > 50 and 'reply' in combined_text.lower()
LooksLikeComment(texts) ==
    texts # <<>> /\ Len(JoinStripped(texts)) > 50 /\ HasReply(JoinStripped(texts))

\* the fallback over //div when no main selector matched
RECURSIVE FallbackLoop(_, _, _)
FallbackLoop(d, divs, list) ==
    IF divs = <<>> THEN list
    ELSE IF LooksLikeComment(TextsOf(d, Descendants(d, Head(divs)) \cup {Head(divs)}))
         THEN FallbackLoop(d, Tail(divs),
                           parse_comment(d, list, Head(divs), None, 0).list)
         ELSE FallbackLoop(d, Tail(divs), list)

\* the body of parse_post_comments once the main selectors are evaluated
ParseItems(d, items) ==
    IF items # <<>>
    THEN TopLoop(d, items, [list |-> <<>>, raised |-> FALSE])
    ELSE [list |-> FallbackLoop(d, DocOrder(Nodes(d)), <<>>), raised |-> FALSE]

\* parse_post_comments(response): the returned list, or raised
parse_post_comments(d) == ParseItems(d, FirstMatch(main_selectors(d)))

-----------------------------------------------------------------------------
(* Pages: old.reddit.com comment pages rendered from a comment forest.     *)
(* Comment i (numbered in document order) becomes four divs:               *)
(*   <div class="thing comment" data-type="comment" [data-fullname=t1_i]>  *)
(*     <div class="md"><p>text</p></div>                                   *)
(*     <div class="child"><div class="sitetable listing"> replies </div>   *)
(* below <div class="sitetable nestedlisting"> (div 1) when top-level.     *)

\* the largest number of comment containers on a page
MaxComments == 3

\* the texts a comment's <p> may hold: absent, punctuation only, accented
HtmlTexts == {NoText, <<"!">>, <<"e_acute", "!", "a">>}

CommentDiv(i) == 4 * i - 2
MdDiv(i) == 4 * i - 1
ChildDiv(i) == 4 * i
ListingDiv(i) == 4 * i + 1

RECURSIVE IsThreadAncestor(_, _, _)
IsThreadAncestor(cparent, a, i) ==
    IF i = 0 THEN FALSE
    ELSE cparent[i] = a \/ IsThreadAncestor(cparent, a, cparent[i])

\* the reply structures of k comments numbered in document order: each comment
\* replies to nothing (0), to its predecessor or to an ancestor of its predecessor
Threads(k) ==
    {cp \in [1..k -> 0..k] :
        \A i \in 1..k : /\ cp[i] < i
                        /\ i > 1 => (cp[i] = 0 \/ cp[i] = i - 1
                                       \/ IsThreadAncestor(cp, cp[i], i - 1))}

Render(k, cparent, named, text) ==
    [n \in 1..(4 * k + 1) |->
        IF n = 1
        THEN [ parent |-> 0, class |-> <<"sitetable", "nestedlisting">>, dtype |-> "",
               fullname |-> None, id |-> None, ptext |-> NoText ]
        ELSE LET i == (n + 2) \div 4
             IN CASE n = CommentDiv(i) ->
                       [ parent |-> IF cparent[i] = 0 THEN 1 ELSE ListingDiv(cparent[i]),
                         class |-> <<"thing", "comment">>, dtype |-> "comment",
                         fullname |-> IF named[i] THEN <<"t1_", i>> ELSE None,
                         id |-> None, ptext |-> NoText ]
                  [] n = MdDiv(i) ->
                       [ parent |-> CommentDiv(i), class |-> <<"md">>, dtype |-> "",
                         fullname |-> None, id |-> None, ptext |-> text[i] ]
                  [] n = ChildDiv(i) ->
                       [ parent |-> CommentDiv(i), class |-> <<"child">>, dtype |-> "",
                         fullname |-> None, id |-> None, ptext |-> NoText ]
                  [] OTHER ->
                       [ parent |-> ChildDiv(i), class |-> <<"sitetable", "listing">>,
                         dtype |-> "", fullname |-> None, id |-> None,
                         ptext |-> NoText ] ]

\* the pages with at most n comment containers
Pages(n) ==
    UNION { { Render(k, cp, named, text) :
                cp \in Threads(k), named \in [1..k -> BOOLEAN],
                text \in [1..k -> HtmlTexts] } : k \in 0..n }

\* a thread of k comments, each the only reply to the one before it, every
\* container with a data-fullname and a body
Chain(k) ==
    Render(k, [i \in 1..k |-> i - 1], [i \in 1..k |-> TRUE],
           [i \in 1..k |-> <<"e_acute", "!", "a">>])

\* a page whose thread is nested one level deeper than process_replies descends:
\* its comments are at the depths 0..DepthCap + 1
DeepPages == {Chain(DepthCap + 2)}

\* the page whose containers carry their identifier in @id instead of
\* @data-fullname
IdOnly(page) ==
    [n \in DOMAIN page |-> [page[n] EXCEPT !.id = page[n].fullname, !.fullname = None]]

\* the pages of at most two comment containers identified by @id alone
IdPages == {IdOnly(page) : page \in Pages(2)}

-----------------------------------------------------------------------------
(* The JSON API payload and parse_reddit_json_comments.                    *)
(* payload.top is the shape of json_data: "pair" for [post, listing],      *)
(* "single" for a list of fewer than two elements.                         *)
(* payload.things[i] is the i-th thing below the comment listing, in       *)
(* document order:                                                         *)
(*   parent  index of the thing whose replies.data.children holds it,      *)
(*           0 for a child of the comment listing itself                   *)
(*   kind    "t1" (comment), "more" (stub) or "t3" (link)                  *)
(*   id      data.id (None when absent)                                    *)
(*   author  data.author                                                   *)
(*   body    data.body                                                     *)
(* A thing's data.replies is a listing of its children when it has any and *)
(* the empty string when it has none.                                      *)

\* the sentinels of a deleted or removed comment
Deleted == <<"[", "d", "e", "l", "e", "t", "e", "d", "]">>
Removed == <<"[", "r", "e", "m", "o", "v", "e", "d", "]">>

Children_AllBeneath(things, n) ==
    DocOrder({m \in 1..Len(things) : n = 0 \/ IsAncestor(things, n, m)})

\* the things of a listing's children, in order
Children(things, n) == DocOrder({m \in 1..Len(things) : things[m].parent = n})

\* data.get('replies'): "" for a comment without replies, else the children
Replies(things, n) ==
    IF Children(things, n) = <<>> THEN [str |-> TRUE, children |-> <<>>]
    ELSE [str |-> FALSE, children |-> Children(things, n)]

\* replies_processed += child_replies + 1 if child_replies >= 0 else 0
CountChild(replies_processed, child_replies) ==
    replies_processed + (IF child_replies >= 0 THEN child_replies + 1 ELSE 0)

AuthorGone_DeletedOnly(author) == author = "[deleted]"

\* author in ['[deleted]', '[removed]']
AuthorGone(author) == author \in {"[deleted]", "[removed]"}

RECURSIVE extract_comment_from_json(_, _, _, _, _), JsonChildLoop(_, _, _, _, _)

\* the loop over the children of a comment's replies on st = [list, count]
JsonChildLoop(things, children, st, current_comment_id, depth) ==
    IF children = <<>> THEN st
    ELSE LET r == extract_comment_from_json(things, st.list, Head(children),
                                            current_comment_id, depth + 1)
         IN JsonChildLoop(things, Tail(children),
                          [list |-> r.list, count |-> CountChild(st.count, r.ret)],
                          current_comment_id, depth)

\* extract_comment_from_json(comment_data, parent_id, depth) on the list so far:
\* the list afterwards and the returned number of replies processed
extract_comment_from_json(things, list, n, parent_id, depth) ==
    LET data == things[n]
        normalized_body == normalize_text(data.body)
    IN IF data.kind = "more" THEN [list |-> list, ret |-> 0]
       ELSE IF data.kind # "t1" THEN [list |-> list, ret |-> 0]
       ELSE IF AuthorGone(data.author) THEN [list |-> list, ret |-> 0]
       ELSE IF ~Truthy(data.body) \/ data.body \in {Deleted, Removed}
            THEN [list |-> list, ret |-> 0]
       ELSE IF ~Truthy(normalized_body) \/ Len(Strip(normalized_body)) < 3
            THEN [list |-> list, ret |-> 0]
       ELSE
         LET comment_info == [ comment_id  |-> data.id,
                               parent_id   |-> parent_id,
                               body        |-> normalized_body,
                               depth       |-> depth,
                               reply_count |-> 0,
                               node        |-> n ]
             appended == Append(list, comment_info)
             pos == Len(appended)
             replies == Replies(things, n)
             st == IF ~replies.str
                   THEN JsonChildLoop(things, replies.children,
                                      [list |-> appended, count |-> 0], data.id, depth)
                   ELSE [list |-> appended, count |-> 0]
         IN [ list |-> IF st.count > 0
                       THEN [st.list EXCEPT ![pos].reply_count = st.count]
                       ELSE st.list,
              ret |-> st.count ]

\* the loop over the children of the comment listing
RECURSIVE JsonTopLoop(_, _, _)
JsonTopLoop(things, children, list) ==
    IF children = <<>> THEN list
    ELSE JsonTopLoop(things, Tail(children),
                     extract_comment_from_json(things, list, Head(children), None, 0).list)

parse_reddit_json_comments(json_data) ==
    IF json_data.top = "pair"
    THEN JsonTopLoop(json_data.things, Children(json_data.things, 0), <<>>)
    ELSE <<>>

\* the largest number of things below the comment listing
MaxThings == 3

\* the kinds of thing a payload is built from: a comment, a comment without id,
\* a "more" stub, a link ("t3"), comments of a deleted or removed author or
\* with a deleted or removed body, a comment whose normalized body is shorter
\* than 3 characters
ThingProfiles ==
    { [kind |-> "t1", hasId |-> TRUE, author |-> "user",
       body |-> <<"e_acute", "!", "a", "b">>],
      [kind |-> "t1", hasId |-> FALSE, author |-> "user", body |-> <<"a", "b", "c">>],
      [kind |-> "more", hasId |-> TRUE, author |-> "", body |-> NoText],
      [kind |-> "t1", hasId |-> TRUE, author |-> "[deleted]", body |-> <<"a", "b", "c">>],
      [kind |-> "t3", hasId |-> TRUE, author |-> "user", body |-> <<"a", "b", "c">>],
      [kind |-> "t1", hasId |-> TRUE, author |-> "[removed]", body |-> <<"a", "b", "c">>],
      [kind |-> "t1", hasId |-> TRUE, author |-> "user", body |-> Deleted],
      [kind |-> "t1", hasId |-> TRUE, author |-> "user", body |-> Removed],
      [kind |-> "t1", hasId |-> TRUE, author |-> "user", body |-> <<"a", "!", "!">>] }

Thing(i, cparent, profile) ==
    [ parent |-> cparent[i], kind |-> profile.kind,
      id |-> IF profile.hasId THEN <<"t1_", i>> ELSE None,
      author |-> profile.author, body |-> profile.body ]

\* json_data: a post listing followed by a comment listing of k things
Payload(k, cparent, profile) ==
    [top |-> "pair", things |-> [i \in 1..k |-> Thing(i, cparent, profile[i])]]

\* json_data without a comment listing
SinglePayload == [top |-> "single", things |-> <<>>]

\* the payloads are those of at most MaxThings things, and the single one
InitJson ==
    /\ \/ \E k \in 0..MaxThings :
             \E cp \in Threads(k), prof \in [1..k -> ThingProfiles] :
                payload = Payload(k, cp, prof)
       \/ payload = SinglePayload
    /\ json_pc = "input"
    /\ json_comments = <<>>
    /\ HtmlIdle /\ FetchIdle /\ DedupeIdle /\ PostIdle /\ FilterIdle /\ ListingIdle

\* self.parse_reddit_json_comments(json_data)
ParseRedditJsonComments ==
    /\ json_pc = "input"
    /\ json_comments' = parse_reddit_json_comments(payload)
    /\ json_pc' = "parsed"
    /\ UNCHANGED <<payload, htmlVars, fetchVars, dedupeVars, postVars, filterVars, listingVars>>

NextJson == ParseRedditJsonComments

SpecJson == InitJson /\ [][NextJson]_vars

-----------------------------------------------------------------------------
(* The rate-limited fetcher: safe_request.  Delays are in milliseconds.    *)

Millis == 1000

base_delay == 3
max_delay == 30
backoff_factor == 2
retry_attempts == 5

\* the request count above which the adaptive delay is added
AdaptiveAfter == 50

Min(a, b) == IF a < b THEN a ELSE b

\* the delay multipliers of the callers (1.0, 1.5 and 2.0) and a larger one, as
\* fractions
DelayMultipliers == { [num |-> 1, den |-> 1], [num |-> 3, den |-> 2],
                      [num |-> 2, den |-> 1], [num |-> 11, den |-> 1] }

\* requests_count at the start of the behaviour: the requests the session has
\* already made
PriorRequests == {0, 50, 250}

\* the number of safe_request calls of one behaviour
MaxCalls == 2

\* min(2.0, self.requests_count / 100), in milliseconds
adaptive_delay(count) == Min(2 * Millis, count * (Millis \div 100))

\* current_delay before the loop, from the multiplier and the session's counters
InitialDelay(mult, count, long) ==
    LET base == (base_delay * Millis * mult.num) \div mult.den
        adapted == IF count > AdaptiveAfter THEN base + adaptive_delay(count) ELSE base
    IN IF long THEN (adapted * 3) \div 2 ELSE adapted

\* the backoff without its cap
BackoffUncapped(delay) == delay * backoff_factor

\* min(current_delay * self.backoff_factor, self.max_delay)
Backoff(delay) == Min(delay * backoff_factor, max_delay * Millis)

\* a retry that sleeps current_delay as the status handling left it
DelayBefore_NoBackoff(a, delay) == delay

\* the delay slept before attempt number a
DelayBefore(a, delay) == IF a > 0 THEN Backoff(delay) ELSE delay

\* a raise_for_status that lets "not found" through
raise_for_status_Not404(status) == status \in {"429", "403", "502", "503", "500"}

\* a raise_for_status that lets the rate-limit status through
raise_for_status_Skip429(status) == status \in {"403", "502", "503", "404", "500"}

\* response.raise_for_status(): raises for a 4xx or 5xx status
raise_for_status(status) == status \in {"429", "403", "502", "503", "404", "500"}

\* a call that counts itself twice
CountRequest_Twice(count) == count + 2

\* a call that leaves the counter alone
CountRequest_Skip(count) == count

\* self.requests_count += 1, once per call, before the loop
CountRequest(count) == count + 1

\* attempt == self.retry_attempts - 1
IsLastAttempt(a) == a = retry_attempts - 1

InitFetch ==
    /\ requests_count \in PriorRequests
    /\ session_long \in BOOLEAN
    /\ fetch_pc = "idle"
    /\ current_delay = 0
    /\ attempt = 0
    /\ sleeps = <<>>
    /\ last_status = "none"
    /\ calls_started = 0
    /\ HtmlIdle /\ JsonIdle /\ DedupeIdle /\ PostIdle /\ FilterIdle /\ ListingIdle

\* safe_request(url, delay_multiplier) up to the loop
StartRequest ==
    /\ fetch_pc \in {"idle", "returned", "raised"}
    /\ calls_started < MaxCalls
    /\ \E mult \in DelayMultipliers, long \in {session_long, TRUE} :
          /\ session_long' = long
          /\ requests_count' = CountRequest(requests_count)
          /\ current_delay' = InitialDelay(mult, CountRequest(requests_count), long)
    /\ fetch_pc' = "loop"
    /\ attempt' = 0
    /\ sleeps' = <<>>
    /\ last_status' = "none"
    /\ calls_started' = calls_started + 1
    /\ UNCHANGED <<htmlVars, jsonVars, dedupeVars, postVars, filterVars, listingVars>>

\* one pass of the loop body whose session.get answers with `status`, or raises
\* "timeout" (requests.exceptions.Timeout) or "error" (another RequestException);
\* `factor` is what the status multiplies current_delay by, `retry` whether the
\* status handling ends in `continue` when attempts remain
Attempt(status, factor, retry) ==
    /\ attempt < retry_attempts
    /\ LET slept == DelayBefore(attempt, current_delay)
           failed == status \in {"timeout", "error"} \/ raise_for_status(status)
       IN /\ sleeps' = Append(sleeps, slept)
          /\ current_delay' = slept * factor
          /\ last_status' = status
          /\ IF retry /\ ~IsLastAttempt(attempt)
             THEN fetch_pc' = "loop" /\ attempt' = attempt + 1
             ELSE IF ~failed
             THEN fetch_pc' = "returned" /\ attempt' = attempt
             ELSE IF IsLastAttempt(attempt)
             THEN fetch_pc' = "raised" /\ attempt' = attempt
             ELSE fetch_pc' = "loop" /\ attempt' = attempt + 1
    /\ UNCHANGED <<requests_count, session_long, calls_started, htmlVars, jsonVars,
                   dedupeVars, postVars, filterVars, listingVars>>

\* the response has a status that raise_for_status accepts
AttemptOk ==
    /\ fetch_pc = "loop"
    /\ Attempt("200", 1, FALSE)

\* status 429: current_delay *= 3, continue while attempts remain
AttemptRateLimited ==
    /\ fetch_pc = "loop"
    /\ Attempt("429", 3, TRUE)

\* status 403, 502 or 503: current_delay *= 2, continue while attempts remain
AttemptBlocked ==
    /\ fetch_pc = "loop"
    /\ \E status \in {"403", "502", "503"} : Attempt(status, 2, TRUE)

\* another error status: raise_for_status raises, caught as RequestException
AttemptHttpError ==
    /\ fetch_pc = "loop"
    /\ \E status \in {"404", "500"} : Attempt(status, 1, FALSE)

\* session.get raises Timeout
AttemptTimeout ==
    /\ fetch_pc = "loop"
    /\ Attempt("timeout", 1, FALSE)

\* session.get raises another RequestException
AttemptRequestException ==
    /\ fetch_pc = "loop"
    /\ Attempt("error", 1, FALSE)

NextFetch ==
    \/ StartRequest
    \/ AttemptOk
    \/ AttemptRateLimited
    \/ AttemptBlocked
    \/ AttemptHttpError
    \/ AttemptTimeout
    \/ AttemptRequestException

SpecFetch == InitFetch /\ [][NextFetch]_vars

-----------------------------------------------------------------------------
(* The deduplication pipeline: process_comments_with_pandas.               *)
(* A comment dict is a record of cells; every cell is a string, a number   *)
(* being written as its numeral.  NaN is the cell of a key that is None or *)
(* missing from one dict while other dicts have it; Absent marks a body    *)
(* key that the dict does not have (the frame has a body column only when  *)
(* some dict has the key).  A frame is a sequence of rows: the cells and   *)
(* the index label `row`.                                                  *)

NaN == "<NaN>"
Absent == "<absent>"
NaT == "<NaT>"

\* whether the frame of these dicts has a body column
HasBodyColumn(comments) == \E i \in 1..Len(comments) : comments[i].body # Absent

\* pd.DataFrame(comments): row i is labelled i - 1; a key missing from a dict
\* reads NaN when the column exists
DataFrame(comments) ==
    [i \in 1..Len(comments) |->
        [ row |-> i - 1,
          comment_id |-> comments[i].comment_id,
          body |-> IF comments[i].body = Absent /\ HasBodyColumn(comments) THEN NaN
                   ELSE comments[i].body,
          author |-> comments[i].author,
          score |-> comments[i].score,
          created_time |-> comments[i].created_time ]]

Cells(r) == <<r.comment_id, r.body, r.author, r.score, r.created_time>>

\* the cells two rows are compared on: all of them, or those of subset=['body']
KeyOf(r, subset) == IF subset = "body" THEN <<r.body>> ELSE Cells(r)

\* drop_duplicates(subset, keep='first'), NaN cells comparing equal; `kept`
\* holds the rows retained so far
RECURSIVE drop_duplicates(_, _, _)
drop_duplicates(df, subset, kept) ==
    IF df = <<>> THEN kept
    ELSE IF \E k \in 1..Len(kept) : KeyOf(kept[k], subset) = KeyOf(Head(df), subset)
         THEN drop_duplicates(Tail(df), subset, kept)
         ELSE drop_duplicates(Tail(df), subset, Append(kept, Head(df)))

\* df.fillna({'body': '', 'body_processed': '', 'score': 0, 'author': '[deleted]'})
fillna(df) ==
    [i \in 1..Len(df) |->
        [df[i] EXCEPT !.body = IF @ = NaN THEN "" ELSE @,
                      !.score = IF @ = NaN THEN "0" ELSE @,
                      !.author = IF @ = NaN THEN "[deleted]" ELSE @]]

\* pd.to_datetime(value, errors='coerce') of one cell: a timestamp stays, a
\* parseable string becomes the timestamp, anything else becomes NaT
to_datetime(cell) ==
    IF cell \in {"ts:2024-01-01"} THEN cell
    ELSE IF cell = "2024-01-01" THEN "ts:2024-01-01"
    ELSE NaT

ConvertCreatedTime(df) ==
    [i \in 1..Len(df) |-> [df[i] EXCEPT !.created_time = to_datetime(@)]]

\* process_comments_with_pandas(comments): the returned frame.  Without a body
\* column duplicated(subset=['body']) raises KeyError and the except clause
\* returns pd.DataFrame(comments).
process_comments_with_pandas(comments) ==
    IF comments = <<>> THEN <<>>
    ELSE IF ~HasBodyColumn(comments) THEN DataFrame(comments)
    ELSE LET df == drop_duplicates(DataFrame(comments), "all", <<>>)
             byBody == drop_duplicates(df, "body", <<>>)
         IN ConvertCreatedTime(fillna(byBody))

\* df.to_dict('records'): the rows as comment dicts again
Records(df) ==
    [i \in 1..Len(df) |->
        [ comment_id |-> df[i].comment_id, body |-> df[i].body, author |-> df[i].author,
          score |-> df[i].score, created_time |-> df[i].created_time ]]

\* the largest number of comment dicts passed in
MaxRecords == 3

\* the comment dicts: two identifiers, every kind of body, and at most one of
\* author, score and created_time missing or unparseable
CommentDicts ==
    { r \in [ comment_id : {"c1", "c2"}, body : {Absent, NaN, "", "a"},
              author : {NaN, "u"}, score : {NaN, "7"},
              created_time : {NaN, "2024-01-01", "soon"} ] :
        Cardinality({f \in {"author", "score", "created_time"} :
                        \/ f = "author" /\ r.author = NaN
                        \/ f = "score" /\ r.score = NaN
                        \/ f = "created_time" /\ r.created_time # "2024-01-01"}) <= 1 }

InitDedupe ==
    /\ dd_in \in UNION {[1..n -> CommentDicts] : n \in 0..MaxRecords}
    /\ dd_pc = "input"
    /\ dd_once = <<>>
    /\ dd_twice = <<>>
    /\ HtmlIdle /\ JsonIdle /\ FetchIdle /\ PostIdle /\ FilterIdle /\ ListingIdle

\* process_comments_with_pandas(comments)
ProcessComments ==
    /\ dd_pc = "input"
    /\ dd_once' = process_comments_with_pandas(dd_in)
    /\ dd_pc' = "once"
    /\ UNCHANGED <<dd_in, dd_twice, htmlVars, jsonVars, fetchVars, postVars, filterVars, listingVars>>

\* process_comments_with_pandas on the records of the frame it returned
ProcessAgain ==
    /\ dd_pc = "once"
    /\ dd_twice' = process_comments_with_pandas(Records(dd_once))
    /\ dd_pc' = "twice"
    /\ UNCHANGED <<dd_in, dd_once, htmlVars, jsonVars, fetchVars, postVars, filterVars, listingVars>>

NextDedupe ==
    \/ ProcessComments
    \/ ProcessAgain

SpecDedupe == InitDedupe /\ [][NextDedupe]_vars

-----------------------------------------------------------------------------
(* extract_reddit_post: the two page fetches, the markup parse and the     *)
(* JSON fallback.  A safe_request call either returns a response or        *)
(* raises; a parser either returns a list or raises.  A comment list is    *)
(* known by its source and its length: its i-th comment is <<source, i>>.  *)

\* the number of markup comments below which the JSON API is tried
FewComments == 10

\* the longest comment list a parser returns
MaxListLen == 11

CommentList(source, n) == [i \in 1..n |-> <<source, i>>]

\* len(json_comments) > len(post_data["comments"]), with `>=` instead
PreferJsonOnTie(json_list, markup_list) == Len(json_list) >= Len(markup_list)

\* len(json_comments) > len(post_data["comments"])
PreferJson(json_list, markup_list) == Len(json_list) > Len(markup_list)

\* len(post_data["comments"]) < 10
TryJson(markup_list) == Len(markup_list) < FewComments

\* isinstance(exc, cls) for the exception classes that occur: Timeout is a
\* RequestException, and every class is an Exception
IsInstance(exc, cls) ==
    \/ cls = exc
    \/ cls = "Exception"
    \/ cls = "RequestException" /\ exc = "Timeout"

\* except clauses that catch the exceptions of requests only
ExceptPost_RequestsOnly(exc) ==
    \E cls \in {"Timeout", "RequestException"} : IsInstance(exc, cls)

\* the except clauses of extract_reddit_post: Timeout, RequestException, Exception
ExceptPost(exc) ==
    \E cls \in {"Timeout", "RequestException", "Exception"} : IsInstance(exc, cls)

\* where extract_reddit_post goes when `exc` is raised inside its try block: an
\* except clause returns the empty result, or the exception leaves the function
AfterRaise(exc) == IF ExceptPost(exc) THEN "failed" ELSE "raised"

InitPost ==
    /\ post_pc = "start"
    /\ post_markup = <<>>
    /\ post_json = <<>>
    /\ post_json_state = "unasked"
    /\ post_comments = <<>>
    /\ HtmlIdle /\ JsonIdle /\ FetchIdle /\ DedupeIdle /\ FilterIdle /\ ListingIdle

\* response = self.safe_request(url) returns; parse_post_info
RequestPage ==
    /\ post_pc = "start"
    /\ post_pc' = "bulk"
    /\ UNCHANGED <<post_markup, post_json, post_json_state, post_comments>>
    /\ UNCHANGED <<htmlVars, jsonVars, fetchVars, dedupeVars, filterVars, listingVars>>

\* response = self.safe_request(bulk_comments_page_url, 1.5) returns
RequestBulkPage ==
    /\ post_pc = "bulk"
    /\ post_pc' = "parse"
    /\ UNCHANGED <<post_markup, post_json, post_json_state, post_comments>>
    /\ UNCHANGED <<htmlVars, jsonVars, fetchVars, dedupeVars, filterVars, listingVars>>

\* either safe_request raises (Timeout or another RequestException): the
\* except clauses return {"info": {}, "comments": []}
RequestRaises ==
    /\ post_pc \in {"start", "bulk"}
    /\ \E exc \in {"Timeout", "RequestException"} : post_pc' = AfterRaise(exc)
    /\ post_comments' = <<>>
    /\ UNCHANGED <<post_markup, post_json, post_json_state>>
    /\ UNCHANGED <<htmlVars, jsonVars, fetchVars, dedupeVars, filterVars, listingVars>>

\* post_data["comments"] = self.parse_post_comments(response); with 10 or more
\* comments the function returns post_data
ParseMarkup ==
    /\ post_pc = "parse"
    /\ \E n \in 0..MaxListLen :
          /\ post_markup' = CommentList("markup", n)
          /\ post_comments' = CommentList("markup", n)
          /\ post_pc' = IF TryJson(CommentList("markup", n)) THEN "json" ELSE "returned"
    /\ UNCHANGED <<post_json, post_json_state>>
    /\ UNCHANGED <<htmlVars, jsonVars, fetchVars, dedupeVars, filterVars, listingVars>>

\* parse_post_comments raises (the TypeError of a thread nested beyond the depth
\* cap): `except Exception` returns {"info": {}, "comments": []}
ParseMarkupRaises ==
    /\ post_pc = "parse"
    /\ post_pc' = AfterRaise("TypeError")
    /\ post_comments' = <<>>
    /\ UNCHANGED <<post_markup, post_json, post_json_state>>
    /\ UNCHANGED <<htmlVars, jsonVars, fetchVars, dedupeVars, filterVars, listingVars>>

\* the JSON fallback runs to its end: safe_request(json_url, 2.0), .json(),
\* parse_reddit_json_comments, the comparison; then return post_data
JsonFallback ==
    /\ post_pc = "json"
    /\ \E n \in 0..MaxListLen :
          /\ post_json' = CommentList("json", n)
          /\ post_comments' = IF PreferJson(CommentList("json", n), post_comments)
                              THEN CommentList("json", n)
                              ELSE post_comments
    /\ post_json_state' = "parsed"
    /\ post_pc' = "returned"
    /\ UNCHANGED post_markup
    /\ UNCHANGED <<htmlVars, jsonVars, fetchVars, dedupeVars, filterVars, listingVars>>

\* the JSON fallback raises (the fetch or the decoding): the inner except
\* clause logs it; then return post_data
JsonFallbackFails ==
    /\ post_pc = "json"
    /\ post_json_state' = "failed"
    /\ post_pc' = "returned"
    /\ UNCHANGED <<post_markup, post_json, post_comments>>
    /\ UNCHANGED <<htmlVars, jsonVars, fetchVars, dedupeVars, filterVars, listingVars>>

NextPost ==
    \/ RequestPage
    \/ RequestBulkPage
    \/ RequestRaises
    \/ ParseMarkup
    \/ ParseMarkupRaises
    \/ JsonFallback
    \/ JsonFallbackFails

SpecPost == InitPost /\ [][NextPost]_vars

-----------------------------------------------------------------------------
(* filter_posts_by_time_range.  Instants are whole hours; a post is a record *)
(* of the keys of a listing item.                                          *)

\* timedelta(days=1), in hours
DayHours == 24

\* the instant datetime.now() returns during a run
Now == 240

\* the largest number of items of a listing
MaxPosts == 3

\* the values of time_range_days with a window: 1 day and 3 days
WindowDays == {1, 3}

\* creation instants: now, and for each window its cutoff and the hour before it
CreatedTimes ==
    {Now} \cup {Now - d * DayHours : d \in WindowDays}
          \cup {Now - d * DayHours - 1 : d \in WindowDays}

\* the created_time of a post dict that has no 'created_time' key
NoKey == -2

\* `if not time_range_days`: None and 0 mean no window
NoWindow(days) == days = NoneInt \/ days = 0

\* post['created_time'] > cutoff_time
InWindow_Strict(created_time, cutoff_time) == created_time > cutoff_time

\* post['created_time'] >= cutoff_time
InWindow(created_time, cutoff_time) == created_time >= cutoff_time

\* datetime.now() - timedelta(days=time_range_days)
CutoffTime(now, days) == now - days * DayHours

\* the loop over posts: append those that have the key and lie in the window
RECURSIVE FilterLoop(_, _, _)
FilterLoop(items, cutoff_time, filtered_posts) ==
    IF items = <<>> THEN filtered_posts
    ELSE FilterLoop(Tail(items), cutoff_time,
                    IF Head(items).created_time # NoKey
                       /\ InWindow(Head(items).created_time, cutoff_time)
                    THEN Append(filtered_posts, Head(items))
                    ELSE filtered_posts)

filter_posts_by_time_range(items, days, now) ==
    IF NoWindow(days) THEN items
    ELSE FilterLoop(items, CutoffTime(now, days), <<>>)

\* the k-th item of a listing: its id, title, score and author are those of the
\* k-th post of the subreddit
ListingItem(k, title, created_time) ==
    [ id |-> <<"t3_", k>>, title |-> title, score |-> 10 * k,
      author |-> <<"author_", k>>, created_time |-> created_time,
      url |-> <<"url_", k>> ]

\* lists of posts as a caller may pass them: any creation instant, or none
PostLists ==
    UNION { { [k \in 1..n |-> ListingItem(k, <<"title_", k>>, created[k])] :
                created \in [1..n -> CreatedTimes \cup {NoKey}] } : n \in 0..MaxPosts }

InitFilter ==
    /\ fp_posts \in PostLists
    /\ fp_days \in WindowDays \cup {0, NoneInt}
    /\ fp_now = Now
    /\ fp_pc = "input"
    /\ fp_out = <<>>
    /\ HtmlIdle /\ JsonIdle /\ FetchIdle /\ DedupeIdle /\ PostIdle /\ ListingIdle

\* self.filter_posts_by_time_range(posts, time_range_days)
FilterPosts ==
    /\ fp_pc = "input"
    /\ fp_out' = filter_posts_by_time_range(fp_posts, fp_days, fp_now)
    /\ fp_pc' = "returned"
    /\ UNCHANGED <<fp_posts, fp_days, fp_now>>
    /\ UNCHANGED <<htmlVars, jsonVars, fetchVars, dedupeVars, postVars, listingVars>>

NextFilter == FilterPosts

SpecFilter == InitFilter /\ [][NextFilter]_vars

-----------------------------------------------------------------------------
(* extract_subreddit_comments: the listing request, the time-window filter, *)
(* the loop over the retained items with one extract_reddit_post call per   *)
(* item, and the returned dictionary.  A fraction is a record [num, den].   *)

\* the most comments a parser finds on the pages of one listing item
MaxItemComments == 2

\* the arguments of a run: time_range_days (None, 0 or 3), max_posts,
\* max_comments_per_post, and whether a progress_callback is passed
ListingArgs ==
    [ time_range_days : {NoneInt, 0, 3}, max_posts : {2, 30},
      max_comments_per_post : {1, 5000}, progress_callback : BOOLEAN ]

\* the k-th item of the listing: created now or before the 3-day window, or
\* created now with a null title
ItemOfKind(k, kind) ==
    ListingItem(k, IF kind = "untitled" THEN None ELSE <<"title_", k>>,
                IF kind = "old" THEN Now - 3 * DayHours - 1 ELSE Now)

\* what the listing request meets: an exception of safe_request or of
\* response.json(), or a listing with up to MaxPosts items
Sites ==
    { [listing |-> exc, items |-> <<>>] :
        exc \in {"Timeout", "RequestException", "JSONDecodeError"} }
    \cup UNION { { [listing |-> "ok", items |-> [k \in 1..n |-> ItemOfKind(k, kind[k])]] :
                     kind \in [1..n -> {"recent", "old", "untitled"}] } : n \in 0..MaxPosts }

\* the limit extract_subreddit_comments calls get_subreddit_posts with
ListingLimit(max_posts) == max_posts

\* the listing size above which get_subreddit_posts sends a limit, and the
\* largest limit it sends
DefaultListing == 25
MaxListing == 500

\* params["limit"]: min(limit, 500) when limit > 25, else not sent
LimitParam(limit) == IF limit > DefaultListing THEN Min(limit, MaxListing) ELSE NoneInt

\* get_subreddit_posts: the posts of the listing, [] when anything raised
get_subreddit_posts(site) == IF site.listing = "ok" THEN site.items ELSE <<>>

\* posts[:max_posts]
LimitPosts(list, max_posts) == SubSeq(list, 1, Min(Len(list), max_posts))

\* a slice that keeps every comment
LimitComments_KeepAll(list, max_comments_per_post) == list

\* post_data["comments"][:max_comments_per_post]
LimitComments(list, max_comments_per_post) ==
    SubSeq(list, 1, Min(Len(list), max_comments_per_post))

\* a fraction that falls as the loop advances
ProgressFraction_Falling(i, n) == [num |-> 2 * n + 7 * (n - i), den |-> 10 * n]

\* 0.2 + (0.7 * (i + 1) / len(posts))
ProgressFraction(i, n) == [num |-> 2 * n + 7 * (i + 1), den |-> 10 * n]

\* the comment with the metadata of its post added; `item` records the position
\* in posts of the item it was extracted from
TagComment(comment, post, k) ==
    [ comment |-> comment, post_id |-> post.id, post_title |-> post.title,
      post_score |-> post.score, post_author |-> post.author,
      post_created_time |-> post.created_time, item |-> k ]

TagComments(list, post, k) == [j \in 1..Len(list) |-> TagComment(list[j], post, k)]

\* {**post, 'comments_extracted': n, 'extraction_success': ok [, 'error': error]}
ProcessedPost(post, n, ok, error) ==
    [ id |-> post.id, title |-> post.title, score |-> post.score,
      author |-> post.author, created_time |-> post.created_time, url |-> post.url,
      comments_extracted |-> n, extraction_success |-> ok, error |-> error ]

\* the dictionaries the function returns: early without posts, from the outer
\* except clause, and at its end
EmptyResult == [posts |-> <<>>, comments |-> <<>>, summary |-> <<>>, error |-> Absent]

ErrorResult(exc) == [posts |-> <<>>, comments |-> <<>>, summary |-> <<>>, error |-> exc]

\* summary: the counts of the run
Summary(found, processed, total) ==
    [ total_posts_found |-> Len(found),
      total_posts_processed |-> Len(processed),
      total_comments |-> total ]

FullResult(processed, comments, counts) ==
    [posts |-> processed, comments |-> comments, summary |-> counts, error |-> Absent]

\* an except clause that leaves no record of the item
RecordError_Skip(processed, post, exc) == processed

\* the inner except clause: processed_posts.append({**post, ..., 'error': str(e)})
RecordError(processed, post, exc) ==
    Append(processed, ProcessedPost(post, 0, FALSE, exc))

\* a test that takes every returned dictionary for an extraction
Extracted_Always(returned) == TRUE

\* `if post_data and post_data.get("comments")`: extract_reddit_post always
\* returns a dictionary, so the test is whether its comments are not empty
Extracted(returned) == returned # <<>>

\* a counter that counts the items with comments
CountComments_Items(total, kept) == total + 1

\* total_comments += len(post_comments)
CountComments(total, kept) == total + Len(kept)

\* a loop variable that stays on its item
NextIndex_Stay(i) == i

\* enumerate(posts): i in the next pass of the loop
NextIndex(i) == i + 1

InitListing ==
    /\ ls_pc = "start"
    /\ ls_args \in ListingArgs
    /\ ls_site \in Sites
    /\ posts = <<>>
    /\ ls_i = 0
    /\ processed_posts = <<>>
    /\ all_comments = <<>>
    /\ progress_calls = <<>>
    /\ ls_result = <<>>
    /\ ls_outcomes = <<>>
    /\ ls_request = <<>>
    /\ total_comments = 0
    /\ summary = <<>>
    /\ HtmlIdle /\ JsonIdle /\ FetchIdle /\ DedupeIdle /\ PostIdle /\ FilterIdle

\* time_range_days is None: `time_range_days <= 7` raises TypeError, and the
\* outer except clause returns the result with the error field
RejectTimeRange ==
    /\ ls_pc = "start"
    /\ ls_args.time_range_days = NoneInt
    /\ ls_result' = ErrorResult("TypeError")
    /\ ls_pc' = "returned"
    /\ UNCHANGED <<ls_args, ls_site, posts, ls_i, processed_posts, all_comments,
                   progress_calls, ls_outcomes, ls_request, total_comments, summary>>
    /\ UNCHANGED <<htmlVars, jsonVars, fetchVars, dedupeVars, postVars, filterVars>>

\* the call of get_subreddit_posts with limit = max_posts, up to its request
RequestListing ==
    /\ ls_pc = "start"
    /\ ls_args.time_range_days # NoneInt
    /\ ls_request' = [ limit |-> ListingLimit(ls_args.max_posts),
                       param |-> LimitParam(ListingLimit(ls_args.max_posts)) ]
    /\ ls_pc' = "fetching"
    /\ UNCHANGED <<ls_args, ls_site, posts, ls_i, processed_posts, all_comments,
                   progress_calls, ls_result, ls_outcomes, total_comments, summary>>
    /\ UNCHANGED <<htmlVars, jsonVars, fetchVars, dedupeVars, postVars, filterVars>>

\* get_subreddit_posts returns no posts (the listing is empty, or its request
\* or its decoding raised): `if not posts` returns
NoPosts ==
    /\ ls_pc = "fetching"
    /\ get_subreddit_posts(ls_site) = <<>>
    /\ ls_result' = EmptyResult
    /\ ls_pc' = "returned"
    /\ UNCHANGED <<ls_args, ls_site, posts, ls_i, processed_posts, all_comments,
                   progress_calls, ls_outcomes, ls_request, total_comments, summary>>
    /\ UNCHANGED <<htmlVars, jsonVars, fetchVars, dedupeVars, postVars, filterVars>>

\* get_subreddit_posts returns posts
ListPosts ==
    /\ ls_pc = "fetching"
    /\ get_subreddit_posts(ls_site) # <<>>
    /\ posts' = get_subreddit_posts(ls_site)
    /\ ls_pc' = "filtering"
    /\ UNCHANGED <<ls_args, ls_site, ls_i, processed_posts, all_comments, progress_calls,
                   ls_result, ls_outcomes, ls_request, total_comments, summary>>
    /\ UNCHANGED <<htmlVars, jsonVars, fetchVars, dedupeVars, postVars, filterVars>>

\* `if time_range_days:` the posts are filtered by time; posts[:max_posts];
\* the lists and the counter of the loop are created
FilterAndLimit ==
    /\ ls_pc = "filtering"
    /\ posts' = LimitPosts(filter_posts_by_time_range(posts, ls_args.time_range_days, Now),
                           ls_args.max_posts)
    /\ ls_i' = 0
    /\ all_comments' = <<>>
    /\ processed_posts' = <<>>
    /\ total_comments' = 0
    /\ ls_pc' = "loop"
    /\ UNCHANGED <<ls_args, ls_site, progress_calls, ls_result, ls_outcomes, ls_request,
                   summary>>
    /\ UNCHANGED <<htmlVars, jsonVars, fetchVars, dedupeVars, postVars, filterVars>>

\* the loop body up to the call of extract_reddit_post, for a post with a title:
\* the progress callback is called when there is one
BeginItem ==
    /\ ls_pc = "loop"
    /\ ls_i < Len(posts)
    /\ posts[ls_i + 1].title # None
    /\ progress_calls' = IF ls_args.progress_callback
                         THEN Append(progress_calls, ProgressFraction(ls_i, Len(posts)))
                         ELSE progress_calls
    /\ post_pc' = "start"
    /\ ls_pc' = "extract"
    /\ UNCHANGED <<post_markup, post_json, post_json_state, post_comments>>
    /\ UNCHANGED <<ls_args, ls_site, posts, ls_i, processed_posts, all_comments,
                   ls_result, ls_outcomes, ls_request, total_comments, summary>>
    /\ UNCHANGED <<htmlVars, jsonVars, fetchVars, dedupeVars, filterVars>>

\* the loop body for a post whose title is None: post['title'][:40] raises
\* TypeError before the callback and the extraction are reached; the inner
\* except clause records the error and continues
ItemRaises ==
    /\ ls_pc = "loop"
    /\ ls_i < Len(posts)
    /\ posts[ls_i + 1].title = None
    /\ processed_posts' = RecordError(processed_posts, posts[ls_i + 1], "TypeError")
    /\ ls_outcomes' = Append(ls_outcomes, [ended |-> "not called", comments |-> <<>>])
    /\ ls_i' = NextIndex(ls_i)
    /\ UNCHANGED <<ls_pc, ls_args, ls_site, posts, all_comments, progress_calls, ls_result,
                   ls_request, total_comments, summary>>
    /\ UNCHANGED <<htmlVars, jsonVars, fetchVars, dedupeVars, postVars, filterVars>>

\* a step of the extract_reddit_post call of the current item; the parsers find
\* at most MaxItemComments comments
ExtractPostStep ==
    /\ ls_pc = "extract"
    /\ NextPost
    /\ Len(post_markup') <= MaxItemComments
    /\ Len(post_json') <= MaxItemComments

\* the rest of the loop body once extract_reddit_post is over: with comments,
\* they are limited, tagged, collected and counted; without, the post is
\* recorded as not extracted; an exception out of the call is recorded by the
\* inner except clause
EndItem ==
    /\ ls_pc = "extract"
    /\ post_pc \in {"returned", "failed", "raised"}
    /\ LET post == posts[ls_i + 1]
           post_comments_kept == LimitComments(post_comments,
                                               ls_args.max_comments_per_post)
       IN IF post_pc = "raised"
          THEN /\ processed_posts' = RecordError(processed_posts, post, "Exception")
               /\ all_comments' = all_comments
               /\ total_comments' = total_comments
          ELSE IF Extracted(post_comments)
          THEN /\ processed_posts' =
                      Append(processed_posts,
                             ProcessedPost(post, Len(post_comments_kept), TRUE, Absent))
               /\ all_comments' = all_comments
                                    \o TagComments(post_comments_kept, post, ls_i + 1)
               /\ total_comments' = CountComments(total_comments, post_comments_kept)
          ELSE /\ processed_posts' = Append(processed_posts,
                                            ProcessedPost(post, 0, FALSE, Absent))
               /\ all_comments' = all_comments
               /\ total_comments' = total_comments
    /\ ls_outcomes' = Append(ls_outcomes, [ended |-> post_pc, comments |-> post_comments])
    /\ ls_i' = NextIndex(ls_i)
    /\ ls_pc' = "loop"
    /\ post_pc' = "idle"
    /\ post_markup' = <<>>
    /\ post_json' = <<>>
    /\ post_json_state' = "unasked"
    /\ post_comments' = <<>>
    /\ UNCHANGED <<ls_args, ls_site, posts, progress_calls, ls_result, ls_request, summary>>
    /\ UNCHANGED <<htmlVars, jsonVars, fetchVars, dedupeVars, filterVars>>

\* after the loop: the summary is built
Summarize ==
    /\ ls_pc = "loop"
    /\ ls_i >= Len(posts)
    /\ summary' = Summary(posts, processed_posts, total_comments)
    /\ ls_pc' = "summarizing"
    /\ UNCHANGED <<ls_args, ls_site, posts, ls_i, processed_posts, all_comments,
                   progress_calls, ls_result, ls_outcomes, ls_request, total_comments>>
    /\ UNCHANGED <<htmlVars, jsonVars, fetchVars, dedupeVars, postVars, filterVars>>

\* the dictionary of posts, comments and summary is returned
Finish ==
    /\ ls_pc = "summarizing"
    /\ ls_result' = FullResult(processed_posts, all_comments, summary)
    /\ ls_pc' = "returned"
    /\ UNCHANGED <<ls_args, ls_site, posts, ls_i, processed_posts, all_comments,
                   progress_calls, ls_outcomes, ls_request, total_comments, summary>>
    /\ UNCHANGED <<htmlVars, jsonVars, fetchVars, dedupeVars, postVars, filterVars>>

NextListing ==
    \/ RejectTimeRange
    \/ RequestListing
    \/ NoPosts
    \/ ListPosts
    \/ FilterAndLimit
    \/ BeginItem
    \/ ItemRaises
    \/ ExtractPostStep
    \/ EndItem
    \/ Finish
    \/ Summarize

SpecListing == InitListing /\ [][NextListing]_vars

\* the runs with the default max_comments_per_post and a progress callback:
\* neither argument has a part in the order of the phases
InitListingFair ==
    /\ InitListing
    /\ ls_args.max_comments_per_post = 5000
    /\ ls_args.progress_callback

\* a run is one thread of control that goes on until it has returned
SpecListingFair == InitListingFair /\ [][NextListing]_vars /\ WF_vars(NextListing)

-----------------------------------------------------------------------------
(* The markup parser applied to a page *)

InitHtml ==
    /\ \/ \E k \in 0..MaxComments :
             \E cp \in Threads(k), named \in [1..k -> BOOLEAN],
                text \in [1..k -> HtmlTexts] :
                doc = Render(k, cp, named, text)
       \/ doc \in DeepPages \cup IdPages
    /\ html_pc = "input"
    /\ html_comments = <<>>
    /\ JsonIdle /\ FetchIdle /\ DedupeIdle /\ PostIdle /\ FilterIdle /\ ListingIdle

\* self.parse_post_comments(response)
ParsePostComments ==
    /\ html_pc = "input"
    /\ \E r \in {parse_post_comments(doc)} :
          /\ html_pc' = IF r.raised THEN "raised" ELSE "parsed"
          /\ html_comments' = IF r.raised THEN <<>> ELSE r.list
    /\ UNCHANGED <<doc, jsonVars, fetchVars, dedupeVars, postVars, filterVars, listingVars>>

NextHtml == ParsePostComments

SpecHtml == InitHtml /\ [][NextHtml]_vars

-----------------------------------------------------------------------------
(* Properties of the two comment parsers *)

\* the number of comment containers that enclose div n
NestingLevel(d, n) == Cardinality({a \in Nodes(d) : IsAncestor(d, a, n) /\ IsCommentDiv(d[a])})

\* the innermost comment container that encloses div n (0 when there is none)
EnclosingComment(d, n) ==
    LET up == {a \in Nodes(d) : IsAncestor(d, a, n) /\ IsCommentDiv(d[a])}
    IN IF up = {} THEN 0 ELSE CHOOSE a \in up : \A b \in up : b <= a

\* the normalized text of a comment container's own <div class="md">
OwnBody(d, n) ==
    normalize_text(JoinStripped(TextsOf(d, {m \in Nodes(d) : d[m].parent = n
                                                              /\ d[m].class = <<"md">>})))

CommentDivs(d) == {n \in Nodes(d) : IsCommentDiv(d[n])}

DepthIsParentDepthPlusOne(list) ==
    \A i, j \in 1..Len(list) :
        (list[i].parent_id # None /\ list[j].comment_id = list[i].parent_id)
        => list[i].depth = list[j].depth + 1

\* C1: in the output of either parser, a record whose parent_id is the comment_id
\* of a record of the same output is exactly one level deeper than that record.
C1_DepthIsParentDepthPlusOne ==
    /\ html_pc = "parsed" => DepthIsParentDepthPlusOne(html_comments)
    /\ json_pc = "parsed" => DepthIsParentDepthPlusOne(json_comments)

\* C2: for a page whose comment containers all have a non-empty body, the markup
\* parser emits exactly one record per container, whose depth is the container's
\* nesting level and whose parent_id identifies the directly enclosing comment
\* (None for a top-level comment).
C2_OneRecordPerCommentNode ==
    (html_pc = "parsed" /\ \A n \in CommentDivs(doc) : OwnBody(doc, n) # <<>>)
    => /\ Len(html_comments) = Cardinality(CommentDivs(doc))
       /\ \A n \in CommentDivs(doc) : \E i \in 1..Len(html_comments) :
              html_comments[i].node = n
       /\ \A i \in 1..Len(html_comments) :
             LET r == html_comments[i]
                 up == EnclosingComment(doc, r.node)
             IN /\ r.depth = NestingLevel(doc, r.node)
                /\ IF up = 0 THEN r.parent_id = None
                   ELSE \E j \in 1..Len(html_comments) :
                           /\ html_comments[j].node = up
                           /\ html_comments[j].comment_id = r.parent_id

\* C3: in the markup parser's output every record with a parent_id is preceded
\* by a record whose comment_id is that parent_id.
C3_ParentPrecedesReply ==
    html_pc = "parsed"
    => \A i \in 1..Len(html_comments) :
          html_comments[i].parent_id # None
          => \E j \in 1..(i - 1) : html_comments[j].comment_id = html_comments[i].parent_id

HasIdAndBody(list) ==
    \A i \in 1..Len(list) :
        /\ list[i].comment_id # None
        /\ Truthy(list[i].body)

\* C4: every record either parser emits has a non-empty comment_id and a
\* non-empty normalized body.
C4_IdAndBodyNonEmpty ==
    /\ html_pc = "parsed" => HasIdAndBody(html_comments)
    /\ json_pc = "parsed" => HasIdAndBody(json_comments)

\* the records emitted for things below the thing of record i
EmittedBeneath(things, list, i) ==
    {j \in 1..Len(list) : IsAncestor(things, list[i].node, list[j].node)}

\* C10: the reply_count of every record the JSON parser emits is the number of
\* records emitted for its descendants.
C10_ReplyCountIsEmittedDescendants ==
    json_pc = "parsed"
    => \A i \in 1..Len(json_comments) :
          json_comments[i].reply_count
              = Cardinality(EmittedBeneath(payload.things, json_comments, i))

-----------------------------------------------------------------------------
(* The skip rules of the JSON parser *)

\* a thing for which extract_comment_from_json returns before it appends
IsStubOrGone(data) ==
    \/ data.kind # "t1"
    \/ data.author \in {"[deleted]", "[removed]"}
    \/ data.body \in {Deleted, Removed}

\* C21: the JSON parser emits no record for a "more" stub or any other thing
\* that is not a t1 comment, nor for a comment whose author or body is
\* "[deleted]" or "[removed]".
C21_NoRecordForStubOrGoneComment ==
    json_pc = "parsed"
    => \A i \in 1..Len(json_comments) :
          ~IsStubOrGone(payload.things[json_comments[i].node])

\* a payload with a stub, a link or a deleted comment directly below the comment
\* listing was parsed and gave records
C21_Witness ==
    /\ json_pc = "parsed"
    /\ json_comments # <<>>
    /\ \E n \in 1..Len(payload.things) :
          payload.things[n].parent = 0 /\ IsStubOrGone(payload.things[n])

EmittedFor(list, n) == \E j \in 1..Len(list) : list[j].node = n

\* C30: the replies of a skipped comment are never walked: every thing above an
\* emitted record's thing has a record itself (emitted earlier), so no
\* descendant of a skipped comment is in the output.
C30_NothingBeneathSkippedComment ==
    json_pc = "parsed"
    => \A i \in 1..Len(json_comments) :
          \A a \in 1..Len(payload.things) :
             IsAncestor(payload.things, a, json_comments[i].node)
             => \E j \in 1..(i - 1) : json_comments[j].node = a

\* a skipped comment had a reply that would have been emitted on its own, the
\* parse gave records and none for that reply
C30_Witness ==
    /\ json_pc = "parsed"
    /\ json_comments # <<>>
    /\ \E n, m \in 1..Len(payload.things) :
          /\ payload.things[m].parent = n
          /\ payload.things[n].kind = "t1"
          /\ IsStubOrGone(payload.things[n])
          /\ ~IsStubOrGone(payload.things[m])
          /\ Len(Strip(normalize_text(payload.things[m].body))) >= 3
          /\ ~EmittedFor(json_comments, m)

-----------------------------------------------------------------------------
(* The processed identifiers of process_replies *)

\* the records appended while process_replies ran on the container of record i:
\* that call and the calls below it append records deeper than record i, and
\* the first record that is not deeper was appended after the call returned
DuringCall(list, i) ==
    {j \in (i + 1)..Len(list) : \A m \in (i + 1)..j : list[m].depth > list[i].depth}

\* the records that call appended itself (its nested calls append deeper ones)
EmittedByCall(list, i) ==
    {j \in DuringCall(list, i) : list[j].depth = list[i].depth + 1}

\* the number of reply queries of `what` that match div n
MatchingQueries(d, what, n) ==
    Cardinality({q \in 1..Len(reply_selectors(d, what)) :
                    \E k \in 1..Len(reply_selectors(d, what)[q]) :
                        reply_selectors(d, what)[q][k] = n})

\* C24: one process_replies call emits at most one record for a container that
\* has an identifier (data-fullname or id), however many of its reply queries
\* match the container.
C24_IdentifiedReplyEmittedOncePerCall ==
    html_pc = "parsed"
    => \A i \in 1..Len(html_comments) :
          \A j, k \in EmittedByCall(html_comments, i) :
             (j # k /\ ReplyId(doc[html_comments[j].node]) # None)
             => html_comments[j].node # html_comments[k].node

\* a call emitted a record for an identified container that two or more of its
\* reply queries match
C24_Witness ==
    /\ html_pc = "parsed"
    /\ \E i \in 1..Len(html_comments) : \E j \in EmittedByCall(html_comments, i) :
          /\ ReplyId(doc[html_comments[j].node]) # None
          /\ MatchingQueries(doc, html_comments[i].node, html_comments[j].node) >= 2

-----------------------------------------------------------------------------
(* The depth cap of process_replies *)

\* C18: parse_post_comments returns a list for every page, and the list holds a
\* record for every comment container with a body that is nested at most
\* DepthCap levels deep: nesting beyond the cap is cut, not an error.
C18_DeepNestingGivesPartialOutput ==
    html_pc # "input"
    => /\ html_pc = "parsed"
       /\ \A n \in CommentDivs(doc) :
             (OwnBody(doc, n) # <<>> /\ NestingLevel(doc, n) <= DepthCap)
             => \E i \in 1..Len(html_comments) : html_comments[i].node = n

-----------------------------------------------------------------------------
(* Properties of safe_request *)

NonDecreasing(s) == \A i \in 2..Len(s) : s[i - 1] <= s[i]

\* C7 as claimed: the delays one call sleeps before its attempts never decrease
\* and none exceeds max_delay.
C7_AllDelaysNonDecreasingAndCapped ==
    /\ NonDecreasing(sleeps)
    /\ \A i \in 1..Len(sleeps) : sleeps[i] <= max_delay * Millis

\* C7 amended: the delays slept before the retries (every attempt after the
\* first) never decrease and none exceeds max_delay; the delay before the first
\* attempt is not capped, and when it is at most max_delay (as for the
\* multipliers 1.0, 1.5 and 2.0) the whole sequence never decreases and stays
\* within max_delay.
C7_RetryDelaysNonDecreasingAndCapped ==
    /\ \A i \in 3..Len(sleeps) : sleeps[i - 1] <= sleeps[i]
    /\ \A i \in 2..Len(sleeps) : sleeps[i] <= max_delay * Millis
    /\ (sleeps # <<>> /\ sleeps[1] <= max_delay * Millis)
       => C7_AllDelaysNonDecreasingAndCapped

\* a call that slept five times, with strictly growing delays up to max_delay
C7_Witness ==
    /\ Len(sleeps) = retry_attempts
    /\ sleeps[1] < sleeps[2] /\ sleeps[2] < sleeps[3]
    /\ sleeps[1] <= max_delay * Millis
    /\ sleeps[retry_attempts] = max_delay * Millis

\* the outcomes of an attempt that are failures
FailedStatus(status) ==
    status \in {"429", "403", "502", "503", "404", "500", "timeout", "error"}

\* C8: a call makes at most retry_attempts attempts; it returns a response only
\* from an attempt that succeeded, and when the last of retry_attempts attempts
\* fails it has raised.
C8_AtMostRetryAttemptsThenRaises ==
    /\ Len(sleeps) <= retry_attempts
    /\ fetch_pc = "returned" => ~FailedStatus(last_status)
    /\ fetch_pc = "raised" => Len(sleeps) = retry_attempts /\ FailedStatus(last_status)
    /\ (Len(sleeps) = retry_attempts /\ FailedStatus(last_status)) => fetch_pc = "raised"

\* a call whose five attempts all failed, the last with status 429
C8_Witness ==
    /\ fetch_pc = "raised"
    /\ Len(sleeps) = retry_attempts
    /\ last_status = "429"

\* the statuses that safe_request answers by multiplying current_delay
BlockedStatus(status) == status \in {"403", "502", "503"}

\* a step that is an attempt of the running call after its first one
IsRetry == fetch_pc = "loop" /\ sleeps # <<>> /\ Len(sleeps') = Len(sleeps) + 1

\* the wait before a retry is f429 times the previous wait when the previous
\* attempt was answered with 429 and fBlocked times when it was answered with
\* 403, 502 or 503, capped at max_delay; and an attempt with one of these
\* statuses is followed by another attempt as long as attempts remain
RetryAfterStatus(f429, fBlocked) ==
    /\ (IsRetry /\ last_status = "429")
       => sleeps'[Len(sleeps')] = Min(f429 * sleeps[Len(sleeps)], max_delay * Millis)
    /\ (IsRetry /\ BlockedStatus(last_status))
       => sleeps'[Len(sleeps')] = Min(fBlocked * sleeps[Len(sleeps)], max_delay * Millis)
    /\ (fetch_pc = "loop" /\ Len(sleeps') = Len(sleeps) + 1
          /\ (last_status' = "429" \/ BlockedStatus(last_status'))
          /\ attempt < retry_attempts - 1)
       => fetch_pc' = "loop" /\ attempt' = attempt + 1

\* C19 as claimed: after 429 (resp. 403/502/503) the request is retried while
\* attempts remain, and the wait before the next attempt is 3 times (resp. 2
\* times) the previous wait, capped at max_delay.
C19_NextWaitTripledOrDoubled == [][RetryAfterStatus(3, 2)]_vars

\* C19 amended: after 429 (resp. 403/502/503) the request is retried while
\* attempts remain; current_delay is multiplied by 3 (resp. 2) and the retry
\* then applies the backoff factor to it, so the wait before the next attempt is
\* 6 times (resp. 4 times) the previous wait, capped at max_delay.
C19_NextWaitTimesStatusAndBackoff == [][RetryAfterStatus(6, 4)]_vars

\* a call whose second wait is 6 times its first (a retry after 429) and whose
\* third wait is reached after a further retry, below the cap
C19_Witness ==
    /\ Len(sleeps) >= 2
    /\ sleeps[2] = 6 * sleeps[1]
    /\ sleeps[2] < max_delay * Millis
    /\ fetch_pc = "loop"

\* C20: a safe_request call adds exactly one to requests_count, when it starts;
\* no attempt of the call changes the counter, so after the call returns the
\* counter is one greater than before it, whatever the number of retries; the
\* counter never decreases.
C20_OneIncrementPerCall ==
    [][ /\ requests_count' >= requests_count
        /\ (fetch_pc # "loop" /\ fetch_pc' = "loop") => requests_count' = requests_count + 1
        /\ fetch_pc = "loop" => requests_count' = requests_count ]_vars

\* the first call of a session without earlier requests returned a response
\* after retries, and the counter is 1
C20_Witness ==
    /\ fetch_pc = "returned"
    /\ calls_started = 1
    /\ Len(sleeps) >= 3
    /\ requests_count = 1

\* C25: requests_count grows by one exactly when a call starts and by nothing
\* in any attempt of a call, also in the attempt that raises: it always equals
\* its value at the start of the session plus the number of calls started,
\* whatever the number of attempts and whether the calls returned or raised.
C25_CounterIsCallsStarted ==
    /\ [](requests_count - calls_started \in PriorRequests)
    /\ [][requests_count' - requests_count = calls_started' - calls_started]_vars

\* the second call of a session without earlier requests raised after
\* retry_attempts attempts, and the counter is 2
C25_Witness ==
    /\ fetch_pc = "raised"
    /\ calls_started = 2
    /\ Len(sleeps) = retry_attempts
    /\ requests_count = 2

\* the error statuses that safe_request has no branch for
OtherHttpError(status) == status \in {"404", "500"}

\* an attempt that ends with `outcome` is followed by another attempt while
\* attempts remain, with current_delay left as slept, and raises on the last
\* attempt; the retry after it waits backoff_factor times the previous wait,
\* capped at max_delay
RetriedWithBackoff(outcome) ==
    /\ (fetch_pc = "loop" /\ Len(sleeps') = Len(sleeps) + 1 /\ last_status' = outcome)
       => IF attempt < retry_attempts - 1
          THEN /\ fetch_pc' = "loop"
               /\ attempt' = attempt + 1
               /\ current_delay' = sleeps'[Len(sleeps')]
          ELSE fetch_pc' = "raised"
    /\ (IsRetry /\ last_status = outcome)
       => sleeps'[Len(sleeps')]
            = Min(backoff_factor * sleeps[Len(sleeps)], max_delay * Millis)

\* C26: an attempt answered with 404 or 500 is handled as an attempt that timed
\* out is: retried after the backoff while attempts remain, raised to the
\* caller only on the last of the retry_attempts attempts.
C26_OtherHttpErrorRetriedLikeTimeout ==
    [][ /\ RetriedWithBackoff("timeout")
        /\ \A status \in {"404", "500"} : RetriedWithBackoff(status) ]_vars

\* a call raised on its last attempt, answered with 404, after a first retry
\* that waited twice the first wait
C26_Witness ==
    /\ fetch_pc = "raised"
    /\ last_status = "404"
    /\ Len(sleeps) = retry_attempts
    /\ sleeps[2] = backoff_factor * sleeps[1]

-----------------------------------------------------------------------------
(* Properties of filter_posts_by_time_range *)

\* the positions of the items of a list that lie in the window of d days
Recent(items, d, now) ==
    {k \in 1..Len(items) : /\ items[k].created_time # NoKey
                           /\ items[k].created_time >= now - d * DayHours}

\* C15: with a window of d > 0 days the returned list holds exactly the input
\* items created at or after now - d days, each once and in their input order.
C15_KeepsExactlyRecentItemsInOrder ==
    (fp_pc = "returned" /\ fp_days > 0)
    => /\ Len(fp_out) = Cardinality(Recent(fp_posts, fp_days, fp_now))
       /\ \A k \in Recent(fp_posts, fp_days, fp_now) :
             \E j \in 1..Len(fp_out) : fp_out[j] = fp_posts[k]
       /\ \A j \in 1..Len(fp_out) :
             \E k \in Recent(fp_posts, fp_days, fp_now) : fp_out[j] = fp_posts[k]
       /\ \A i, j \in 1..Len(fp_out) :
             i < j => \E a, b \in 1..Len(fp_posts) :
                         a < b /\ fp_out[i] = fp_posts[a] /\ fp_out[j] = fp_posts[b]

\* three items, the second created one hour before the cutoff of a 3-day window
\* and the third exactly at it: the first and the third remain
C15_Witness ==
    /\ fp_pc = "returned"
    /\ fp_days = 3
    /\ Len(fp_posts) = 3
    /\ fp_posts[2].created_time = fp_now - 3 * DayHours - 1
    /\ fp_posts[3].created_time = fp_now - 3 * DayHours
    /\ fp_out = <<fp_posts[1], fp_posts[3]>>

-----------------------------------------------------------------------------
(* Properties of extract_subreddit_comments *)

\* the comments of the result that were extracted from the k-th retained item
CommentsOfItem(k) == SelectSeq(ls_result.comments, LAMBDA c : c.item = k)

\* a run that got past the listing and returned at the end of its loop
LoopReturned == ls_pc = "returned" /\ ls_result.error = Absent

\* C11: a run returns one record per retained item, in listing order; an item
\* whose extract_reddit_post call ran to its end (line 747) has
\* extraction_success = TRUE and its comments, limited and tagged, in the
\* result; every other item has extraction_success = FALSE and no comments; so
\* each item's record and comments depend on that item's own outcome only.
C11_PerItemFailureIsolated ==
    LoopReturned
    => /\ Len(ls_result.posts) = Len(posts)
       /\ \A k \in 1..Len(posts) :
             /\ ls_result.posts[k].id = posts[k].id
             /\ IF ls_outcomes[k].ended = "returned"
                THEN /\ ls_result.posts[k].extraction_success = TRUE
                     /\ CommentsOfItem(k)
                          = TagComments(LimitComments(ls_outcomes[k].comments,
                                                      ls_args.max_comments_per_post),
                                        posts[k], k)
                ELSE /\ ls_result.posts[k].extraction_success = FALSE
                     /\ CommentsOfItem(k) = <<>>

\* C12: an item whose extraction failed because a fetch or the parse raised has
\* a record with extraction_success = FALSE and an error string, and the loop
\* went on to a record for every retained item.
C12_FailedItemCarriesError ==
    LoopReturned
    => /\ Len(ls_result.posts) = Len(posts)
       /\ \A k \in 1..Len(posts) :
             ls_outcomes[k].ended = "failed"
             => /\ ls_result.posts[k].extraction_success = FALSE
                /\ ls_result.posts[k].error # Absent

\* C13: when the listing request fails, the run returns no posts, no comments
\* and a populated error field.
C13_ListingFailureSetsError ==
    (/\ ls_pc = "returned"
     /\ ls_args.time_range_days # NoneInt
     /\ ls_site.listing \in {"Timeout", "RequestException"})
    => /\ ls_result.posts = <<>>
       /\ ls_result.comments = <<>>
       /\ ls_result.error # Absent

\* C14: no exception leaves extract_reddit_post or extract_subreddit_comments:
\* every extract_reddit_post call ends by returning (its result or the empty
\* result of an except clause), and a run that is over has returned a dictionary.
C14_NoExceptionEscapes ==
    /\ post_pc # "raised"
    /\ ls_pc # "raised"
    /\ \A k \in 1..Len(ls_outcomes) : ls_outcomes[k].ended # "raised"
    /\ ls_pc = "returned"
       => ls_result \in {EmptyResult, ErrorResult("TypeError"),
                         FullResult(processed_posts, all_comments,
                                    Summary(posts, processed_posts, total_comments))}

\* a run that returned although the fetch or parse of one item raised, the
\* title of another could not be sliced, and a third was extracted
C14_Witness ==
    /\ LoopReturned
    /\ \E k \in 1..Len(ls_outcomes) : ls_outcomes[k].ended = "failed"
    /\ \E k \in 1..Len(ls_outcomes) : ls_outcomes[k].ended = "not called"
    /\ \E k \in 1..Len(ls_outcomes) : ls_outcomes[k].ended = "returned"

\* C16: at every point of a run, at most max_comments_per_post of the collected
\* comments come from any one item, and every collected comment carries the id,
\* title, score, author and created_time of the item it was extracted from.
C16_LimitedAndTaggedComments ==
    /\ \A k \in 1..Len(posts) :
          Cardinality({j \in 1..Len(all_comments) : all_comments[j].item = k})
              <= ls_args.max_comments_per_post
    /\ \A j \in 1..Len(all_comments) :
          /\ all_comments[j].item \in 1..Len(posts)
          /\ all_comments[j].post_id = posts[all_comments[j].item].id
          /\ all_comments[j].post_title = posts[all_comments[j].item].title
          /\ all_comments[j].post_score = posts[all_comments[j].item].score
          /\ all_comments[j].post_author = posts[all_comments[j].item].author
          /\ all_comments[j].post_created_time = posts[all_comments[j].item].created_time
    /\ ls_pc = "returned" => ls_result.comments = all_comments

\* a run with max_comments_per_post = 1 returned one comment for each of two
\* items, the second of which had two comments extracted
C16_Witness ==
    /\ LoopReturned
    /\ ls_args.max_comments_per_post = 1
    /\ Len(ls_outcomes) >= 2
    /\ Len(ls_outcomes[2].comments) = 2
    /\ Len(ls_result.comments) = 2
    /\ ls_result.comments[1].item = 1
    /\ ls_result.comments[2].item = 2

\* a < b for fractions
FractionLess(a, b) == a.num * b.den < b.num * a.den

\* C17: the fractions passed to the progress callback grow from each call to the
\* next and lie within [0, 1].
C17_ProgressIncreasesWithinUnit ==
    /\ \A j \in 2..Len(progress_calls) :
          FractionLess(progress_calls[j - 1], progress_calls[j])
    /\ \A j \in 1..Len(progress_calls) :
          /\ progress_calls[j].den > 0
          /\ 0 <= progress_calls[j].num
          /\ progress_calls[j].num <= progress_calls[j].den

\* a run over three items that called the callback three times, the extraction
\* of the second item having failed
C17_Witness ==
    /\ Len(progress_calls) = 3
    /\ Len(ls_outcomes) >= 2
    /\ ls_outcomes[2].ended = "failed"

-----------------------------------------------------------------------------
(* The listing request of extract_subreddit_comments *)

\* C22: the listing endpoint is asked for 2 * max_posts items: the limit sent
\* with the listing request is the one get_subreddit_posts sends for a limit of
\* 2 * max_posts.
C22_AsksTwiceMaxPosts ==
    ls_request # <<>>
    => ls_request.param = LimitParam(2 * ls_args.max_posts)

-----------------------------------------------------------------------------
(* The summary and the item records of extract_subreddit_comments *)

\* a run returned the dictionary built after its loop
HasSummary == ls_pc = "returned" /\ ls_result.summary # <<>>

\* C27: in a result with a summary, total_posts_processed and total_posts_found
\* both are the number of item records, and there is one record for each item
\* retained after filtering and truncation, in their order.
C27_OneRecordPerRetainedItem ==
    HasSummary
    => /\ ls_result.summary.total_posts_processed = ls_result.summary.total_posts_found
       /\ ls_result.summary.total_posts_processed = Len(ls_result.posts)
       /\ Len(ls_result.posts) = Len(posts)
       /\ \A k \in 1..Len(posts) : ls_result.posts[k].id = posts[k].id

\* a result with three records: an extracted item, an item that returned
\* nothing and an item whose processing raised
C27_Witness ==
    /\ HasSummary
    /\ ls_result.summary.total_posts_found = 3
    /\ \E k \in 1..3 : ls_result.posts[k].extraction_success
    /\ \E k \in 1..3 : /\ ~ls_result.posts[k].extraction_success
                        /\ ls_result.posts[k].error = Absent
    /\ \E k \in 1..3 : ls_result.posts[k].error = "TypeError"

\* summary.get('total_comments', 0): the count of a summary, 0 for the empty
\* summary of a run that returned before its loop
TotalCommentsOf(result) ==
    IF result.summary = <<>> THEN 0 ELSE result.summary.total_comments

RECURSIVE SumExtracted(_)
SumExtracted(records) ==
    IF records = <<>> THEN 0
    ELSE Head(records).comments_extracted + SumExtracted(Tail(records))

\* C28: in every result total_comments is the length of the comments and the
\* sum of comments_extracted over the item records; an item recorded with
\* extraction_success = FALSE counts 0 and has no comment in the result.
C28_TotalCommentsIsLengthAndSum ==
    ls_pc = "returned"
    => /\ TotalCommentsOf(ls_result) = Len(ls_result.comments)
       /\ TotalCommentsOf(ls_result) = SumExtracted(ls_result.posts)
       /\ \A k \in 1..Len(ls_result.posts) :
             /\ ls_result.posts[k].comments_extracted = Len(CommentsOfItem(k))
             /\ ~ls_result.posts[k].extraction_success
                => ls_result.posts[k].comments_extracted = 0

\* a result of three comments: two of one item and one of another, beside an
\* item that was not extracted
C28_Witness ==
    /\ HasSummary
    /\ ls_result.summary.total_comments = 3
    /\ \E k \in 1..Len(ls_result.posts) : ls_result.posts[k].comments_extracted = 2
    /\ \E k \in 1..Len(ls_result.posts) : ~ls_result.posts[k].extraction_success

\* C29: extraction_success is TRUE exactly for the items whose
\* extract_reddit_post call returned at least one comment; an item whose call
\* ran to its end without a comment has the record of an item whose fetch or
\* parse failed: extraction_success FALSE, comments_extracted 0, no error.
C29_SuccessIffCommentsReturned ==
    HasSummary
    => \A k \in 1..Len(ls_outcomes) :
          /\ ls_result.posts[k].extraction_success
                = (ls_outcomes[k].ended \in {"returned", "failed"}
                     /\ ls_outcomes[k].comments # <<>>)
          /\ (ls_outcomes[k].ended \in {"returned", "failed"}
                 /\ ls_outcomes[k].comments = <<>>)
             => ls_result.posts[k] = ProcessedPost(posts[k], 0, FALSE, Absent)

\* a result with an item whose call ran to its end without a comment and an
\* item whose call ended in an except clause
C29_Witness ==
    /\ HasSummary
    /\ \E k \in 1..Len(ls_outcomes) :
          ls_outcomes[k].ended = "returned" /\ ls_outcomes[k].comments = <<>>
    /\ \E k \in 1..Len(ls_outcomes) : ls_outcomes[k].ended = "failed"

-----------------------------------------------------------------------------
(* The phases of extract_subreddit_comments *)

\* the position of a phase in Idle, FetchingListing, FilteringByTime,
\* PerItemLoop, Summarizing, Done
Rank(pc) ==
    CASE pc = "fetching" -> 1
      [] pc = "filtering" -> 2
      [] pc \in {"loop", "extract"} -> 3
      [] pc = "summarizing" -> 4
      [] pc = "returned" -> 5
      [] OTHER -> 0

\* from the loop on there is one record for each item visited so far, in
\* listing order, and after the loop one for every retained item
VisitedInOrder ==
    Rank(ls_pc) >= 3 /\ (ls_pc = "returned" => ls_result.summary # <<>>)
    => /\ Len(processed_posts) = ls_i
       /\ ls_i <= Len(posts)
       /\ \A k \in 1..Len(processed_posts) : processed_posts[k].id = posts[k].id
       /\ Rank(ls_pc) >= 4 => ls_i = Len(posts)

\* a step of the loop leaves the retained items alone and goes on to the next
\* item or stays on the current one
LoopStep ==
    (Rank(ls_pc) = 3 /\ Rank(ls_pc') = 3)
    => posts' = posts /\ ls_i' \in {ls_i, ls_i + 1}

\* a return from before the loop: the arguments were rejected, or the listing
\* gave no posts
EarlyReturn ==
    /\ ls_pc \in {"start", "fetching"}
    /\ ls_pc' = "returned"
    /\ ls_result' \in {EmptyResult, ErrorResult("TypeError")}

\* C23 as claimed: a run goes through the phases in their order without leaving
\* one out and without going back, visits each retained item once in listing
\* order, and ends.
C23_EveryPhaseInOrder ==
    /\ []VisitedInOrder
    /\ [][ /\ Rank(ls_pc') >= Rank(ls_pc)
           /\ Rank(ls_pc') <= Rank(ls_pc) + 1
           /\ LoopStep ]_vars
    /\ <>(ls_pc = "returned")

\* C23 amended: a run never goes back to an earlier phase and ends; it goes
\* through the phases in their order, visiting each retained item once in
\* listing order, unless it returns early, which it does only before the
\* listing request (time_range_days is None) or from it (no posts, or the
\* request failed), with a result without posts.
C23_PhasesInOrderOrEarlyReturn ==
    /\ []VisitedInOrder
    /\ [][ /\ Rank(ls_pc') >= Rank(ls_pc)
           /\ Rank(ls_pc') <= Rank(ls_pc) + 1 \/ EarlyReturn
           /\ LoopStep ]_vars
    /\ <>(ls_pc = "returned")

\* a run over three items is done although the fetch or parse of its second
\* item failed
C23_Witness ==
    /\ HasSummary
    /\ Len(ls_result.posts) = 3
    /\ ls_outcomes[2].ended = "failed"
    /\ ls_outcomes[3].ended = "returned"

-----------------------------------------------------------------------------
(* Properties of the deduplication pipeline *)

\* C5: deduplicating the records of a deduplicated frame returns the same records.
C5_DedupeIdempotent ==
    dd_pc = "twice" => Records(dd_twice) = Records(dd_once)

\* the input dict a returned row was built from
SourceOf(r) == dd_in[r.row + 1]

\* C6: the returned rows are input dicts in input order, no two of them are
\* identical, no two have the same body, and each is the first input dict with
\* its body.
C6_FirstOccurrencePerBody ==
    dd_pc = "once"
    => /\ \A i \in 1..Len(dd_once) :
             /\ dd_once[i].row + 1 \in 1..Len(dd_in)
             /\ i > 1 => dd_once[i - 1].row < dd_once[i].row
             /\ ~\E j \in 1..dd_once[i].row : dd_in[j].body = SourceOf(dd_once[i]).body
       /\ \A i, j \in 1..Len(dd_once) :
             i # j => /\ Cells(dd_once[i]) # Cells(dd_once[j])
                      /\ dd_once[i].body # dd_once[j].body

-----------------------------------------------------------------------------
(* Properties of extract_reddit_post *)

\* C9: the JSON API is consulted only when the markup gave fewer than 10
\* comments; the returned list is the JSON list when that was parsed and is
\* strictly longer than the markup list, and the markup list in every other
\* case (equal counts, shorter JSON list, failed JSON fallback, no fallback).
C9_JsonOnlyWhenStrictlyLonger ==
    /\ post_json_state # "unasked" => Len(post_markup) < FewComments
    /\ post_pc = "returned"
       => post_comments =
            IF post_json_state = "parsed" /\ Len(post_json) > Len(post_markup)
            THEN post_json ELSE post_markup

\* a call that returned a JSON list longer than a non-empty markup list
C9_Witness ==
    /\ post_pc = "returned"
    /\ post_json_state = "parsed"
    /\ Len(post_markup) > 0
    /\ Len(post_json) > Len(post_markup)
    /\ post_comments = post_json

====
